---- MODULE Spec2Model ----
(***************************************************************************)
(* FuseTester: the acquisition pipeline of jissepo/FuseTester.             *)
(*                                                                         *)
(*   GPIOService         (gpio.service.js)   enable and address lines      *)
(*   I2CService          (i2c.service.js)    bus transactions              *)
(*   ADS1115Service      (ads1115.service.js) single-shot conversions      *)
(*   CSVLogger           (csv.logger.js)     rotating CSV file             *)
(*   FuseMonitorService  (fuse-monitor.service.js) the sweep               *)
(*   index.js                                startup, timer, shutdown      *)
(*                                                                         *)
(* Node runs every flow on one event loop: a step of the model is one run  *)
(* of JavaScript from the callback of a timer or of an I/O completion to   *)
(* the next point where the flow waits for a timer or an I/O completion.   *)
(***************************************************************************)
EXTENDS Integers, Sequences, FiniteSets, TLC

VARIABLES
    proc,        \* the process: "starting", "testing", "running", "exited"
    mon,         \* FuseMonitorService: initialized, monitoring, timer
    gpio,        \* GPIOService: initialized, enable lines, address lines
    i2c,         \* I2CService: initialized, connectedDevices
    ads,         \* ADS1115Service: isConnected
    adc,         \* the ADS1115 device: selected input, conversion register
    csv,         \* CSVLogger: initialized, writeStream, fileSize, ...
    disk,        \* the files: the active file and the rotated ones
    test,        \* the flow of testSystem (index.js startMonitoring)
    sweeps,      \* the executions of collectAndLogData, in start order
    tp,          \* a caller's flow of GPIOService.testPins
    logs,        \* the calls of CSVLogger.logData, in start order
    remote,      \* BufferedRemoteSink: retry buffer, endpoint, deliveries
    server,      \* the collection server: database rows, POST /data requests
    lastResult,  \* outcome of the last direct call of a service method
    ticksLeft,   \* timer ticks the run may still fire
    faultsLeft   \* I/O faults the environment may still inject

vars == <<proc, mon, gpio, i2c, ads, adc, csv, disk, test, sweeps, tp, logs,
          remote, server, lastResult, ticksLeft, faultsLeft>>

(***************************************************************************)
(* Bounds of the model.                                                    *)
(***************************************************************************)
\* timer ticks fired in one run
MaxTicks == 2
\* I/O faults (bus errors, hangs, write errors) injected in one run
MaxFaults == 1
\* capacity of the BufferedRemoteSink retry buffer in the model
Capacity == 3
\* results handed to BufferedRemoteSink.deliver in a run
MaxResults == 5
\* attempts counted per RetryBuffer entry
MaxAttempts == 2
\* fuse numbers a POST /data body may carry
MaxFuses == 2
\* POST /data requests the server receives in a run
MaxRequests == 2
\* statements the database fails in a run for a cause outside the request
MaxDbFaults == 1
\* channels swept per multiplexer (16 in the source, part_003:324)
channelsPerMux == 2
\* calls of CSVLogger.logData in one run
MaxLogs == 2
\* values of a logged row; a line counts one byte per field
MaxValues == 1
\* the largest maxFileSize configured, in bytes
MaxLimit == 2
\* the largest header line, in bytes
MaxHeader == 2
\* the largest file an earlier run left, in bytes
MaxExisting == 2
\* logData calls, values of a row and the largest maxFileSize when lines
\* are appended to a new header-less file
AppendLogs == 5
AppendValues == 1
AppendLimit == 4

(***************************************************************************)
(* Program constants.                                                      *)
(***************************************************************************)
totalMuxes == 4
\* loop bounds of testSystem's sample readings
TestMuxes == 2
TestChannels == 4
\* fuseData.push("0.0")
Sentinel == 0

totalFuses == totalMuxes * channelsPerMux

Mux == 0 .. (totalMuxes - 1)
\* S0..S3, index k is address bit k
ControlPin == 0 .. 3

\* channel & (1 << k)  >> k
Bit(c, k) == (c \div (2 ^ k)) % 2

(***************************************************************************)
(* GPIOService                                                             *)
(***************************************************************************)
GpioConstructed ==
    [initialized |-> FALSE,
     en  |-> [m \in Mux |-> 1],
     sel |-> [k \in ControlPin |-> 0]]

\* initialize(): control pins low, enable pins high (disabled)
GpioInitialized(g) ==
    IF g.initialized THEN g
    ELSE [initialized |-> TRUE,
          en  |-> [m \in Mux |-> 1],
          sel |-> [k \in ControlPin |-> 0]]

\* The result of a call: ok = FALSE when the call threw.
Ret(ok, g) == [ok |-> ok, g |-> g]

\* a setMuxChannel that drives S0..S3 with the bits in reverse order
setMuxChannelReversed(g, channel) ==
    IF ~g.initialized THEN Ret(FALSE, g)
    ELSE IF channel < 0 \/ channel > 15 THEN Ret(FALSE, g)
    ELSE Ret(TRUE,
             [g EXCEPT !.sel = [k \in ControlPin |-> Bit(channel, 3 - k)]])

setMuxChannel(g, channel) ==
    IF ~g.initialized THEN Ret(FALSE, g)
    ELSE IF channel < 0 \/ channel > 15 THEN Ret(FALSE, g)
    ELSE Ret(TRUE, [g EXCEPT !.sel = [k \in ControlPin |-> Bit(channel, k)]])

\* an enableMux that checks the index after it disabled the multiplexers
enableMuxLateCheck(g, muxIndex) ==
    IF ~g.initialized THEN Ret(FALSE, g)
    ELSE IF muxIndex < 0 \/ muxIndex > 3
    THEN Ret(FALSE, [g EXCEPT !.en = [m \in Mux |-> 1]])
    ELSE Ret(TRUE, [g EXCEPT !.en =
                       [m \in Mux |-> IF m = muxIndex THEN 0 ELSE 1]])

\* an enableMux without the check of initialized
enableMuxUnchecked(g, muxIndex) ==
    IF muxIndex < 0 \/ muxIndex > 3 THEN Ret(FALSE, g)
    ELSE Ret(TRUE, [g EXCEPT !.en =
                       [m \in Mux |-> IF m = muxIndex THEN 0 ELSE 1]])

enableMux(g, muxIndex) ==
    IF ~g.initialized THEN Ret(FALSE, g)
    ELSE IF muxIndex < 0 \/ muxIndex > 3 THEN Ret(FALSE, g)
    ELSE Ret(TRUE, [g EXCEPT !.en =
                       [m \in Mux |-> IF m = muxIndex THEN 0 ELSE 1]])

disableAllMux(g) ==
    IF ~g.initialized THEN Ret(FALSE, g)
    ELSE Ret(TRUE, [g EXCEPT !.en = [m \in Mux |-> 1]])

\* s0 | (s1 << 1) | (s2 << 2) | (s3 << 3)
getCurrentChannel(g) ==
    IF ~g.initialized THEN -1
    ELSE g.sel[0] + 2 * g.sel[1] + 4 * g.sel[2] + 8 * g.sel[3]

\* shutdown(): disableAllMux, then gpioPins = {} and initialized = false
GpioShutdown(g) ==
    IF g.initialized
    THEN [disableAllMux(g).g EXCEPT !.initialized = FALSE]
    ELSE g

EnabledMuxes(g) == {m \in Mux : g.en[m] = 0}

(***************************************************************************)
(* GPIOService.testPins: one flow, suspended at each delay(1).             *)
(*   pc "ctlHigh"/"ctlLow": control pin k was driven 1 / 0                 *)
(*   pc "enHigh"/"enLow":   enable pin k was driven 1 / 0                  *)
(***************************************************************************)
TpIdle == [pc |-> "idle", k |-> 0, error |-> FALSE]

\* the synchronous start: throws when not initialized
TestPinsStart(g) ==
    IF ~g.initialized
    THEN [ok |-> FALSE, g |-> g, tp |-> TpIdle]
    ELSE [ok |-> TRUE,
          g  |-> [g EXCEPT !.sel[0] = 1],
          tp |-> [pc |-> "ctlHigh", k |-> 0, error |-> FALSE]]

\* the run after a delay(1) has elapsed; a write to a pin of a service that
\* was shut down meanwhile (gpioPins = {}) throws into testPins' catch
TestPinsResume(g, t) ==
    IF ~g.initialized
    THEN [g |-> g, tp |-> [pc |-> "done", k |-> t.k, error |-> TRUE]]
    ELSE CASE t.pc = "ctlHigh" ->
                [g  |-> [g EXCEPT !.sel[t.k] = 0],
                 tp |-> [t EXCEPT !.pc = "ctlLow"]]
           [] t.pc = "ctlLow" ->
                IF t.k < 3
                THEN [g  |-> [g EXCEPT !.sel[t.k + 1] = 1],
                      tp |-> [t EXCEPT !.pc = "ctlHigh", !.k = t.k + 1]]
                ELSE [g  |-> [g EXCEPT !.en[0] = 1],
                      tp |-> [t EXCEPT !.pc = "enHigh", !.k = 0]]
           [] t.pc = "enHigh" ->
                [g  |-> [g EXCEPT !.en[t.k] = 0],
                 tp |-> [t EXCEPT !.pc = "enLow"]]
           [] t.pc = "enLow" ->
                IF t.k < 3
                THEN [g  |-> [g EXCEPT !.en[t.k] = 1, !.en[t.k + 1] = 1],
                      tp |-> [t EXCEPT !.pc = "enHigh", !.k = t.k + 1]]
                ELSE [g  |-> [g EXCEPT !.en[t.k] = 1],
                      tp |-> [t EXCEPT !.pc = "done"]]

TpWaiting(t) == t.pc \in {"ctlHigh", "ctlLow", "enHigh", "enLow"}

(***************************************************************************)
(* The analog path: AINm of the ADS1115 is wired to the output of          *)
(* multiplexer m, which carries input (m, address) while m's enable line   *)
(* is asserted (low) and floats otherwise.  A voltage is modelled by the   *)
(* identity of the physical input it was measured on.                      *)
(***************************************************************************)
InputsPerMux == 16
Volt(m, c) == InputsPerMux * m + c + 1
Floating == InputsPerMux * totalMuxes + 1

Routed(g, m) ==
    IF g.en[m] = 0
    THEN Volt(m, g.sel[0] + 2 * g.sel[1] + 4 * g.sel[2] + 8 * g.sel[3])
    ELSE Floating

\* an index that forgets the "+ 1"
FuseIndexFromZero(perMux, m, c) == m * perMux + c

\* muxIndex * this.channelsPerMux + channel + 1, for perMux channels on each
\* multiplexer
FuseIndex(perMux, m, c) == m * perMux + c + 1

\* the logical index of (mux, channel) in a sweep
fuseNumber(m, c) == FuseIndex(channelsPerMux, m, c)

(***************************************************************************)
(* ADS1115Service.readChannel over I2CService, as the places where it      *)
(* waits: "cfgWrite" (i2c.write of the configuration word), "convDelay"    *)
(* (delay(conversionDelay)), "ptrWrite" (i2c.write of the pointer          *)
(* register), "convRead" (i2c.read of two bytes); "return" and "throw"     *)
(* end it.                                                                 *)
(***************************************************************************)
\* I2CService.connectDevice throws when the service is not initialized
connectDevice(b) == b.initialized

\* the synchronous head of readChannel: the two checks, then writeWordData
\* a readChannel without the check of its channel
ReadChannelStartAnyChannel(a, b, channel) ==
    IF ~a.isConnected THEN "throw"
    ELSE IF ~connectDevice(b) THEN "throw"
    ELSE "cfgWrite"

ReadChannelStart(a, b, channel) ==
    IF ~a.isConnected THEN "throw"
    ELSE IF channel < 0 \/ channel > 3 THEN "throw"
    ELSE IF ~connectDevice(b) THEN "throw"
    ELSE "cfgWrite"

\* a readChannel that reads the conversion register without the delay
ReadChannelResumeNoDelay(b, rpc, ev) ==
    CASE rpc = "cfgWrite"  -> IF ev = "ok" THEN "ptrWrite" ELSE "throw"
      [] rpc = "convDelay" -> IF connectDevice(b) THEN "ptrWrite" ELSE "throw"
      [] rpc = "ptrWrite"  -> IF ev = "ok" THEN "convRead" ELSE "throw"
      [] rpc = "convRead"  -> IF ev = "ok" THEN "return" ELSE "throw"

\* the run after the event ev ("ok" or "err") the flow waited for at rpc
ReadChannelResume(b, rpc, ev) ==
    CASE rpc = "cfgWrite"  -> IF ev = "ok" THEN "convDelay" ELSE "throw"
      [] rpc = "convDelay" -> IF connectDevice(b) THEN "ptrWrite" ELSE "throw"
      [] rpc = "ptrWrite"  -> IF ev = "ok" THEN "convRead" ELSE "throw"
      [] rpc = "convRead"  -> IF ev = "ok" THEN "return" ELSE "throw"

ReadPcs == {"cfgWrite", "convDelay", "ptrWrite", "convRead"}

(***************************************************************************)
(* ADS1115Service.isHealthy over I2CService.readWordData, as the places    *)
(* where it waits: "hPtrWrite" (i2c.write of the register address),        *)
(* "hRead" (i2c.read of two bytes); "true", "false" and "throw" end it.     *)
(***************************************************************************)
HealthPcs == {"hPtrWrite", "hRead"}

\* the synchronous head of isHealthy: the check of isConnected, then
\* readWordData, whose connectDevice throws into the catch of isHealthy
IsHealthyStart(a, b) ==
    IF ~a.isConnected THEN "false"
    ELSE IF ~connectDevice(b) THEN "false"
    ELSE "hPtrWrite"

\* an isHealthy whose catch throws the read error on
IsHealthyResumeRethrow(hpc, ev) ==
    CASE hpc = "hPtrWrite" -> IF ev = "ok" THEN "hRead" ELSE "throw"
      [] hpc = "hRead"     -> IF ev = "ok" THEN "true" ELSE "throw"

\* the run after the event ev ("ok" or "err") isHealthy waited for at hpc
IsHealthyResume(hpc, ev) ==
    CASE hpc = "hPtrWrite" -> IF ev = "ok" THEN "hRead" ELSE "false"
      [] hpc = "hRead"     -> IF ev = "ok" THEN "true" ELSE "false"
\* the places that wait for a bus transaction, where the bus may fail
BusPcs == {"cfgWrite", "ptrWrite", "convRead"}

\* the voltage readChannel returns to the iteration of (mux, channel): the
\* sweep's own reading of that fuse, named by the fuse's logical index
Reading(m, c) == fuseNumber(m, c)

\* the fields of the configuration register that readChannel sets to a
\* value other than 0 (data rate 128 SPS and the comparator mode, polarity
\* and latch are 0)
ConfigOsSingle == 32768
ConfigMuxSingle0 == 16384
ConfigMuxStep == 4096
ConfigPga4096 == 512
ConfigModeSingle == 256
ConfigCqueNone == 3

\* the ADS1115_CONFIG_PGA_* values that setGain is documented to take
Gains == {0, 512, 1024, 1536, 2048, 2560}

\* muxConfig of the switch in readChannel
MuxSingle(channel) == ConfigMuxSingle0 + channel * ConfigMuxStep

\* the configuration word readChannel builds: the fields occupy disjoint
\* bits, so their bitwise OR is their sum
ConfigWord(channel, gain) ==
    ConfigOsSingle + MuxSingle(channel) + gain + ConfigModeSingle
        + ConfigCqueNone

\* the fields of a configuration word as the device decodes them
StartBit(w) == (w \div 32768) % 2
InputSelect(w) == (w \div 4096) % 8
GainField(w) == ((w \div 512) % 8) * 512
ModeBit(w) == (w \div 256) % 2

\* the device after a configuration word was written: with the start bit
\* set it converts the input the word selects
AdcWrite(g, a, w) ==
    IF StartBit(w) = 1 /\ InputSelect(w) >= 4
    THEN [sel |-> InputSelect(w) - 4,
          conv |-> Routed(g, InputSelect(w) - 4),
          cfg |-> w]
    ELSE [a EXCEPT !.cfg = w]

\* the device after readChannel(m) wrote its configuration word
AdcStart(g, m) == AdcWrite(g, adc, ConfigWord(m, ads.gain))

(***************************************************************************)
(* FuseMonitorService.collectAndLogData: one sweep.                        *)
(*   pc "muxDelay": delay(1) after enableMux(mux)                          *)
(*   pc "chDelay":  delay(1) after setMuxChannel(ch)                       *)
(*   pc in ReadPcs: inside readChannel(mux)                                *)
(*   pc "csvWrite": logToCSV waits for the stream's write callback         *)
(*   pc "done":     returned                                               *)
(* data is fuseData; failed, enSettled, selSettled, aborted, hung are      *)
(* history: the logical indices whose read threw, whether the delay after  *)
(* this sweep's last change of the enable lines / of the address lines has *)
(* elapsed, whether the outer catch ran, whether the bus transaction it    *)
(* waits for never completes.                                              *)
(***************************************************************************)
SweepNew ==
    [pc |-> "new", mux |-> 0, ch |-> 0, data |-> <<>>, failed |-> {},
     enSettled |-> FALSE, selSettled |-> FALSE, aborted |-> FALSE,
     hung |-> FALSE, thrown |-> FALSE, timestamp |-> 0, written |-> FALSE]

Out(g, sw) == [g |-> g, sw |-> sw]

\* a catch that logs the error and records nothing
CatchChannelErrorNoPush(sw) ==
    [sw EXCEPT !.failed = sw.failed \cup {fuseNumber(sw.mux, sw.ch)}]

\* the inner catch: fuseData.push("0.0")
CatchChannelError(sw) ==
    [sw EXCEPT !.data = Append(sw.data, Sentinel),
               !.failed = sw.failed \cup {fuseNumber(sw.mux, sw.ch)}]

\* fuseData.push(voltage)
PushVoltage(sw, voltage) == [sw EXCEPT !.data = Append(sw.data, voltage)]

\* an outer catch that goes on to log what was collected
CatchSweepErrorAndLog(g, sw) ==
    Out(disableAllMux(g).g, [sw EXCEPT !.pc = "csvWrite", !.aborted = TRUE])

\* the outer catch: disableAllMux inside its own try
CatchSweepError(g, sw) ==
    Out(disableAllMux(g).g, [sw EXCEPT !.pc = "done", !.aborted = TRUE])

\* a sweep that goes to logToCSV without disabling the multiplexers
FinishSweepNoDisable(g, sw) ==
    IF csv.stream = "null" THEN Out(g, [sw EXCEPT !.pc = "done"])
    ELSE Out(g, [sw EXCEPT !.pc = "csvWrite"])

\* after the loops: disableAllMux, then logToCSV, which writes the row to
\* CSVLogger.writeStream when there is one
FinishSweep(g, sw) ==
    LET r == disableAllMux(g) IN
    IF ~r.ok THEN CatchSweepError(g, sw)
    ELSE IF csv.stream = "null" THEN Out(r.g, [sw EXCEPT !.pc = "done"])
    ELSE Out(r.g, [sw EXCEPT !.pc = "csvWrite"])

RECURSIVE StartChannel(_, _, _, _)
RECURSIVE StartMux(_, _, _)

\* a channel loop that runs one index too far (channel <= channelsPerMux)
AfterChannelOffByOne(g, sw, m, c) ==
    IF c + 1 <= channelsPerMux THEN StartChannel(g, sw, m, c + 1)
    ELSE IF m + 1 < totalMuxes THEN StartMux(g, sw, m + 1)
    ELSE FinishSweep(g, sw)

\* the loop steps to the channel after (m, c), to the next multiplexer, or out
AfterChannel(g, sw, m, c) ==
    IF c + 1 < channelsPerMux THEN StartChannel(g, sw, m, c + 1)
    ELSE IF m + 1 < totalMuxes THEN StartMux(g, sw, m + 1)
    ELSE FinishSweep(g, sw)

\* setMuxChannel(channel); await delay(1)
StartChannel(g, sw, m, c) ==
    LET r == setMuxChannel(g, c) IN
    IF r.ok
    THEN Out(r.g, [sw EXCEPT !.pc = "chDelay", !.mux = m, !.ch = c,
                             !.selSettled = FALSE])
    ELSE AfterChannel(g, CatchChannelError([sw EXCEPT !.mux = m, !.ch = c]),
                      m, c)

\* enableMux(muxIndex); await delay(1)
StartMux(g, sw, m) ==
    LET r == enableMux(g, m) IN
    IF r.ok
    THEN Out(r.g, [sw EXCEPT !.pc = "muxDelay", !.mux = m, !.ch = 0,
                             !.enSettled = FALSE])
    ELSE CatchSweepError(g, sw)

\* a channel loop without the inner try: a throwing read ends the sweep in
\* the outer catch
ReadOutcomeAbort(g, sw, rpc, voltage) ==
    IF rpc = "return"
    THEN AfterChannel(g, PushVoltage(sw, voltage), sw.mux, sw.ch)
    ELSE IF rpc = "throw"
    THEN CatchSweepError(g, sw)
    ELSE Out(g, [sw EXCEPT !.pc = rpc])

\* readChannel(muxIndex) came to rpc: it waits there, returned a voltage,
\* or threw into the inner catch
ReadOutcome(g, sw, rpc, voltage) ==
    IF rpc = "return"
    THEN AfterChannel(g, PushVoltage(sw, voltage), sw.mux, sw.ch)
    ELSE IF rpc = "throw"
    THEN AfterChannel(g, CatchChannelError(sw), sw.mux, sw.ch)
    ELSE Out(g, [sw EXCEPT !.pc = rpc])

\* a logToCSV without its catch: the write error rejects collectAndLogData
LogToCsvRethrow(g, sw, ev) ==
    IF ev = "err" THEN Out(g, [sw EXCEPT !.pc = "done", !.thrown = TRUE])
    ELSE Out(g, [sw EXCEPT !.pc = "done"])

\* the write callback of logToCSV: resolve, or reject into logToCSV's own
\* catch, which prints the error; collectAndLogData runs to its end
LogToCsvReturn(g, sw, ev) == Out(g, [sw EXCEPT !.pc = "done"])

\* the run of the sweep after the event it waited for
SweepResume(g, sw, ev) ==
    CASE sw.pc = "new" -> StartMux(g, sw, 0)
      [] sw.pc = "muxDelay" ->
            StartChannel(g, [sw EXCEPT !.enSettled = TRUE], sw.mux, 0)
      [] sw.pc = "chDelay" ->
            ReadOutcome(g, [sw EXCEPT !.selSettled = TRUE],
                        ReadChannelStart(ads, i2c, sw.mux), Sentinel)
      [] sw.pc \in ReadPcs ->
            ReadOutcome(g, sw, ReadChannelResume(i2c, sw.pc, ev),
                        Reading(sw.mux, sw.ch))
      [] sw.pc = "csvWrite" -> LogToCsvReturn(g, sw, ev)

InFlight(sw) == sw.pc # "done"

(***************************************************************************)
(* FuseMonitorService.testSystem, called once by index.js before the timer *)
(* is armed: testPins, isHealthy, then sample readings of the first        *)
(* TestChannels channels of the first TestMuxes multiplexers.              *)
(*   pc "pins":               inside GPIOService.testPins (field tp)       *)
(*   pc "hPtrWrite", "hRead": inside isHealthy's readWordData              *)
(*   pc "muxDelay", "chDelay", ReadPcs: the sample readings                *)
(*   pc "done":               returned its results (adcOk, error)          *)
(***************************************************************************)
TestNew ==
    [pc |-> "idle", tp |-> TpIdle, mux |-> 0, ch |-> 0,
     adcOk |-> FALSE, error |-> FALSE]

\* the catch of testSystem: results.error = error.message; return results
TestCatch(g, t) == [g |-> g, t |-> [t EXCEPT !.pc = "done", !.error = TRUE]]

\* GPIOService.setMuxChannel(channel) stands outside the inner try
TestStartChannel(g, t, m, c) ==
    LET r == setMuxChannel(g, c) IN
    IF r.ok
    THEN [g |-> r.g, t |-> [t EXCEPT !.pc = "chDelay", !.mux = m, !.ch = c]]
    ELSE TestCatch(g, t)

TestStartMux(g, t, m) ==
    LET r == enableMux(g, m) IN
    IF r.ok
    THEN [g |-> r.g, t |-> [t EXCEPT !.pc = "muxDelay", !.mux = m, !.ch = 0]]
    ELSE TestCatch(g, t)

\* after the loops: disableAllMux; return results
TestFinish(g, t) ==
    LET r == disableAllMux(g) IN
    IF r.ok THEN [g |-> r.g, t |-> [t EXCEPT !.pc = "done"]]
    ELSE TestCatch(g, t)

TestAfterChannel(g, t, m, c) ==
    IF c + 1 < TestChannels THEN TestStartChannel(g, t, m, c + 1)
    ELSE IF m + 1 < TestMuxes THEN TestStartMux(g, t, m + 1)
    ELSE TestFinish(g, t)

\* a sample reading returned or threw: either way one entry of testReadings
TestReadOutcome(g, t, rpc) ==
    IF rpc \in {"return", "throw"}
    THEN TestAfterChannel(g, t, t.mux, t.ch)
    ELSE [g |-> g, t |-> [t EXCEPT !.pc = rpc]]

\* isHealthy returned healthy: results.adc = healthy, then the samples
TestAfterHealth(g, t, healthy) ==
    TestStartMux(g, [t EXCEPT !.adcOk = healthy], 0)

\* where isHealthy has got to: results.adc is set when it returned, and
\* a throw would go to the catch of testSystem
TestHealthOutcome(g, t, hpc) ==
    CASE hpc = "true"  -> TestAfterHealth(g, t, TRUE)
      [] hpc = "false" -> TestAfterHealth(g, t, FALSE)
      [] hpc = "throw" -> TestCatch(g, t)
      [] OTHER         -> [g |-> g, t |-> [t EXCEPT !.pc = hpc]]

\* testPins returned: isHealthy reads the configuration register
TestAfterPins(g, t) == TestHealthOutcome(g, t, IsHealthyStart(ads, i2c))

\* the run of testSystem after the event it waited for
TestResume(g, t, ev) ==
    CASE t.pc = "pins" ->
            LET r == TestPinsResume(g, t.tp) IN
            IF r.tp.pc = "done"
            THEN TestAfterPins(r.g, [t EXCEPT !.tp = r.tp])
            ELSE [g |-> r.g, t |-> [t EXCEPT !.tp = r.tp]]
      [] t.pc \in HealthPcs ->
            TestHealthOutcome(g, t, IsHealthyResume(t.pc, ev))
      [] t.pc = "muxDelay" -> TestStartChannel(g, t, t.mux, 0)
      [] t.pc = "chDelay" ->
            TestReadOutcome(g, t, ReadChannelStart(ads, i2c, t.mux))
      [] t.pc \in ReadPcs ->
            TestReadOutcome(g, t, ReadChannelResume(i2c, t.pc, ev))

TestBusPcs == BusPcs \cup {"hPtrWrite", "hRead"}

(***************************************************************************)
(* CSVLogger and the files.  A line is a record: its kind ("header" or     *)
(* "row"), its size in bytes, and for a row the values it carries.  Sizes  *)
(* count one unit per field.                                               *)
(***************************************************************************)
NoHeaders == 0
DefaultMaxFileSize == 50 * 1024 * 1024

CsvConstructed ==
    [initialized |-> FALSE, stream |-> "null", fileSize |-> 0,
     maxFileSize |-> 0, rotationCount |-> 0, headers |-> NoHeaders]

HeaderLine(h) == [kind |-> "header", size |-> h, values |-> <<>>]
RowLine(values) ==
    [kind |-> "row", size |-> Len(values) + 1, values |-> values]

FileBytes(f) == LET RECURSIVE Sum(_)
                    Sum(q) == IF q = <<>> THEN 0
                              ELSE Head(q).size + Sum(Tail(q))
                IN Sum(f)

\* initialize(filePath, options): the size of an existing file is taken over
CsvInitialized(c, d, maxFileSize) ==
    [c EXCEPT !.initialized = TRUE, !.stream = "open",
              !.maxFileSize = maxFileSize,
              !.fileSize = IF d.exists THEN FileBytes(d.active)
                           ELSE c.fileSize]

\* fs.createWriteStream(filePath, {flags: "a"}) creates a missing file
DiskOpened(d) == [d EXCEPT !.exists = TRUE]

\* writeStream.write(headerLine) with no callback: an open stream appends
\* the line, an ended one drops it (its "error" event is only printed)
HeaderWritten(c, d, h) ==
    IF c.stream = "open"
    THEN [d EXCEPT !.active = Append(d.active, HeaderLine(h))]
    ELSE d

\* writeHeaders that writes the header line whatever the tracked size is
writeHeadersAlways(c, d, h) ==
    IF ~c.initialized THEN [ok |-> FALSE, c |-> c, d |-> d]
    ELSE [ok |-> TRUE,
          c  |-> [c EXCEPT !.headers = h, !.fileSize = c.fileSize + h],
          d  |-> HeaderWritten(c, d, h)]

\* writeHeaders(headers): the header is stored, and the header line goes to
\* a file whose tracked size is 0
writeHeaders(c, d, h) ==
    IF ~c.initialized THEN [ok |-> FALSE, c |-> c, d |-> d]
    ELSE IF c.fileSize = 0
    THEN [ok |-> TRUE,
          c  |-> [c EXCEPT !.headers = h, !.fileSize = c.fileSize + h],
          d  |-> HeaderWritten(c, d, h)]
    ELSE [ok |-> TRUE, c |-> [c EXCEPT !.headers = h], d |-> d]

\* close(): the stream is ended and forgotten
CsvClosed(c) == [c EXCEPT !.stream = "null", !.initialized = FALSE]

\* options.maxFileSize || parseInt(process.env.CSV_MAX_FILE_SIZE) || default:
\* a missing, zero or unparsable value (0 here) falls through
MaxFileSizeOption(option, env) ==
    IF option # 0 THEN option
    ELSE IF env # 0 THEN env
    ELSE DefaultMaxFileSize

\* rotateFile(): end the stream, count, rename the active file, open a new
\* one and stamp it with the stored header; renameSync may throw
\* a rotateFile that names the file without advancing the counter
rotateFileSameCount(c, d, renameOk) ==
    LET c1 == [c EXCEPT !.stream = IF c.stream = "null" THEN "null"
                                   ELSE "ended",
                        !.rotationCount = c.rotationCount]
        fresh == IF c.headers # NoHeaders THEN <<HeaderLine(c.headers)>>
                 ELSE <<>>
    IN IF ~renameOk \/ ~d.exists THEN [ok |-> FALSE, c |-> c1, d |-> d]
       ELSE [ok |-> TRUE,
             c  |-> [c1 EXCEPT !.stream = "open",
                               !.fileSize = FileBytes(fresh)],
             d  |-> [exists  |-> TRUE,
                     active  |-> fresh,
                     rotated |-> Append(d.rotated,
                                        [count |-> c1.rotationCount,
                                         lines |-> d.active])]]

rotateFile(c, d, renameOk) ==
    LET c1 == [c EXCEPT !.stream = IF c.stream = "null" THEN "null"
                                   ELSE "ended",
                        !.rotationCount = c.rotationCount + 1]
        fresh == IF c.headers # NoHeaders THEN <<HeaderLine(c.headers)>>
                 ELSE <<>>
    IN IF ~renameOk \/ ~d.exists THEN [ok |-> FALSE, c |-> c1, d |-> d]
       ELSE [ok |-> TRUE,
             c  |-> [c1 EXCEPT !.stream = "open",
                               !.fileSize = FileBytes(fresh)],
             d  |-> [exists  |-> TRUE,
                     active  |-> fresh,
                     rotated |-> Append(d.rotated,
                                        [count |-> c1.rotationCount,
                                         lines |-> d.active])]]

\* a call of logData: where it waits, the line it appends, and whether the
\* stream took the line
\*   pc "rotated": await rotateFile() returned
\*   pc "write":   writeStream.write(csvLine) was called, callback pending
\*   pc "done", "failed": it returned, it threw
LogCall(pc, line) == [pc |-> pc, line |-> line, written |-> FALSE]

\* writeStream.write(csvLine, cb): a missing stream throws, an ended one
\* calls back with an error; an open one appends the line in call order or
\* fails, and calls back later
logDataWrite(c, d, call, writeOk) ==
    IF c.stream = "open"
    THEN [c |-> c,
          d |-> IF writeOk
                THEN [d EXCEPT !.active = Append(d.active, call.line)]
                ELSE d,
          call |-> [call EXCEPT !.pc = "write", !.written = writeOk]]
    ELSE [c |-> c, d |-> d, call |-> [call EXCEPT !.pc = "failed"]]

\* a logData that rotates already when the line fills the file to the limit
logDataStartAtLimit(c, d, values, renameOk, writeOk) ==
    LET line == RowLine(values) IN
    IF ~c.initialized
    THEN [c |-> c, d |-> d, call |-> LogCall("failed", line)]
    ELSE IF c.fileSize + line.size >= c.maxFileSize
    THEN LET r == rotateFile(c, d, renameOk)
         IN [c |-> r.c, d |-> r.d,
             call |-> LogCall(IF r.ok THEN "rotated" ELSE "failed", line)]
    ELSE logDataWrite(c, d, LogCall("write", line), writeOk)

\* a logData that appends without the rotation check
logDataStartNoCheck(c, d, values, renameOk, writeOk) ==
    IF ~c.initialized
    THEN [c |-> c, d |-> d, call |-> LogCall("failed", RowLine(values))]
    ELSE logDataWrite(c, d, LogCall("write", RowLine(values)), writeOk)

\* logData({timestamp, values}) up to its first wait: the line, the rotation
\* check and rotateFile, or the write when no rotation is needed
logDataStart(c, d, values, renameOk, writeOk) ==
    LET line == RowLine(values) IN
    IF ~c.initialized
    THEN [c |-> c, d |-> d, call |-> LogCall("failed", line)]
    ELSE IF c.fileSize + line.size > c.maxFileSize
    THEN LET r == rotateFile(c, d, renameOk)
         IN [c |-> r.c, d |-> r.d,
             call |-> LogCall(IF r.ok THEN "rotated" ELSE "failed", line)]
    ELSE logDataWrite(c, d, LogCall("write", line), writeOk)

\* logData after the event it waited for: the write after the rotation, or
\* the write callback, which adds lineSize to fileSize when there is no error
logDataResume(c, d, call, writeOk) ==
    IF call.pc = "rotated"
    THEN logDataWrite(c, d, call, writeOk)
    ELSE IF call.written
    THEN [c |-> [c EXCEPT !.fileSize = c.fileSize + call.line.size],
          d |-> d,
          call |-> [call EXCEPT !.pc = "done"]]
    ELSE [c |-> c, d |-> d, call |-> [call EXCEPT !.pc = "failed"]]

LogReturned(call) == call.pc \in {"done", "failed"}

\* ensureCSVHeader: "timestamp" and one column per fuse
MonitorHeaders == totalFuses + 1

(***************************************************************************)
(* process.env.DATA_COLLECTION_INTERVAL: unset, a text that is no number,   *)
(* or the text of a whole number n.                                         *)
(***************************************************************************)
EnvUnset == [set |-> FALSE, numeric |-> FALSE, n |-> 0]
EnvText == [set |-> TRUE, numeric |-> FALSE, n |-> 0]
EnvNumber(n) == [set |-> TRUE, numeric |-> TRUE, n |-> n]

\* parseInt(text): the number, or NaN (the empty tuple) for undefined and
\* for a text that does not start with a number
ParseInt(e) == IF e.set /\ e.numeric THEN <<e.n>> ELSE <<>>

\* parsed || fallback: NaN and 0 are falsy
OrDefault(parsed, fallback) ==
    IF parsed = <<>> THEN fallback
    ELSE IF parsed[1] = 0 THEN fallback
    ELSE parsed[1]

(***************************************************************************)
(* The state after construction.                                           *)
(***************************************************************************)
\* BufferedRemoteSink after construction: nothing buffered, nothing sent;
\* produced counts the results handed to deliver, delivered is what the
\* endpoint has received, in arrival order
\* the collection server after the tables are created: no rows, no requests
ServerNew ==
    [lastID |-> 0, fuse_readings |-> {}, requests |-> <<>>,
     dbFaultsLeft |-> MaxDbFaults]

RemoteNew ==
    [buffer |-> <<>>, up |-> TRUE, produced |-> 0, delivered |-> <<>>,
     evicted |-> {}]

InitWith(ticks, faults, file) ==
    /\ proc = "starting"
    /\ mon = [initialized |-> FALSE, monitoring |-> FALSE, timer |-> FALSE,
              armed |-> 0, interval |-> 0, intervalEnv |-> EnvUnset]
    /\ gpio = GpioConstructed
    /\ i2c = [initialized |-> FALSE, connected |-> FALSE]
    /\ ads = [isConnected |-> FALSE, gain |-> ConfigPga4096]
    /\ adc = [sel |-> -1, conv |-> Floating, cfg |-> 0]
    /\ csv = CsvConstructed
    /\ disk = [exists |-> file # <<>>, active |-> file, rotated |-> <<>>]
    /\ test = TestNew
    /\ sweeps = <<>>
    /\ tp = TpIdle
    /\ logs = <<>>
    /\ remote = RemoteNew
    /\ server = ServerNew
    /\ lastResult = "none"
    /\ ticksLeft = ticks
    /\ faultsLeft = faults

Init == InitWith(MaxTicks, MaxFaults, <<>>)

(***************************************************************************)
(* index.js and FuseMonitorService: the program.                           *)
(***************************************************************************)
\* parseInt(process.env.DATA_COLLECTION_INTERVAL) || 5000, in milliseconds
DefaultInterval == 5000

\* FuseMonitorService.startMonitoring(), with DATA_COLLECTION_INTERVAL as in
\* env: arms the interval timer with the interval parsed from it
\* a startMonitoring without the check of this.monitoring
startMonitoringUnguarded(m, env) ==
    IF ~m.initialized THEN [ok |-> FALSE, m |-> m]
    ELSE [ok |-> TRUE,
          m  |-> [m EXCEPT !.monitoring = TRUE, !.timer = TRUE,
                           !.armed = @ + 1,
                           !.interval =
                               OrDefault(ParseInt(env), DefaultInterval),
                           !.intervalEnv = env]]

\* timer: this.monitorInterval holds a handle; armed: the interval timers
\* set and not cleared
startMonitoring(m, env) ==
    IF ~m.initialized THEN [ok |-> FALSE, m |-> m]
    ELSE IF m.monitoring THEN [ok |-> TRUE, m |-> m]
    ELSE [ok |-> TRUE,
          m  |-> [m EXCEPT !.monitoring = TRUE, !.timer = TRUE,
                           !.armed = @ + 1,
                           !.interval =
                               OrDefault(ParseInt(env), DefaultInterval),
                           !.intervalEnv = env]]

\* setInterval(callback, interval): Node runs the timer with a period of
\* 1 ms when the interval is below 1
TimerPeriod(interval) == IF interval < 1 THEN 1 ELSE interval

\* FuseMonitorService.stopMonitoring(): clearInterval
stopMonitoring(m) ==
    [m EXCEPT !.monitoring = FALSE, !.timer = FALSE,
              !.armed = IF m.timer THEN @ - 1 ELSE @]

\* index.js initialize() then the head of startMonitoring(), up to the first
\* delay of testPins; any failure of an initialization ends in process.exit(1)
ProgramInitialize(env) ==
    /\ proc = "starting"
    /\ \E ok \in BOOLEAN :
        IF ok
        THEN LET g  == GpioInitialized(gpio)
                 c  == CsvInitialized(csv, disk, MaxFileSizeOption(0, env))
                 w  == writeHeaders(c, DiskOpened(disk), MonitorHeaders)
                 t  == TestPinsStart(g)
             IN /\ i2c' = [initialized |-> TRUE, connected |-> TRUE]
                /\ ads' = [ads EXCEPT !.isConnected = TRUE]
                /\ csv' = w.c
                /\ disk' = w.d
                /\ mon' = [mon EXCEPT !.initialized = TRUE]
                /\ gpio' = t.g
                /\ test' = [TestNew EXCEPT !.pc = "pins", !.tp = t.tp]
                /\ proc' = "testing"
        ELSE /\ proc' = "exited"
             /\ UNCHANGED <<i2c, ads, csv, disk, mon, gpio, test>>
    /\ UNCHANGED <<logs, remote, server, adc, sweeps, tp, lastResult,
                   ticksLeft, faultsLeft>>

\* the program started with CSV_MAX_FILE_SIZE unset
Initialize == ProgramInitialize(0)

\* a check of the test results that lets every result pass
TestPassedAlways(t) == TRUE

\* index.js startMonitoring: testResults.adc && !testResults.error
TestPassed(t) == t.adcOk /\ ~t.error

\* testSystem runs on; when it returns, index.js arms the timer if the test
\* passed (testResults.adc && !testResults.error) and exits otherwise; the
\* process was started with DATA_COLLECTION_INTERVAL as one of envs
ProgramTestStep(envs) ==
    /\ proc = "testing"
    /\ test.pc # "done"
    /\ \E ev \in {"ok", "err"}, env \in envs :
        /\ ev = "err" => (test.pc \in TestBusPcs /\ faultsLeft > 0)
        /\ LET r == TestResume(gpio, test, ev)
               passed == TestPassed(r.t)
           IN /\ gpio' = r.g
              /\ test' = r.t
              /\ adc' = IF test.pc = "cfgWrite" /\ ev = "ok"
                        THEN AdcStart(gpio, test.mux) ELSE adc
              /\ IF r.t.pc # "done" THEN UNCHANGED <<proc, mon>>
                 ELSE IF passed
                 THEN /\ mon' = startMonitoring(mon, env).m
                      /\ proc' = "running"
                 ELSE /\ proc' = "exited"
                      /\ UNCHANGED mon
        /\ faultsLeft' = IF ev = "err" THEN faultsLeft - 1 ELSE faultsLeft
    /\ UNCHANGED <<logs, remote, server, i2c, ads, csv, disk, sweeps, tp,
                   lastResult, ticksLeft>>

\* the program started with DATA_COLLECTION_INTERVAL unset
TestStep == ProgramTestStep({EnvUnset})

\* the services that shutdown() works on, with the lines as in g
Services(g) == [mon |-> mon, gpio |-> g, csv |-> csv, i2c |-> i2c]

\* if (FuseMonitorService.isInitialized()) FuseMonitorService.shutdown():
\* stopMonitoring, GPIOService.shutdown, CSVLogger.close
MonitorShutdown(st) ==
    IF st.mon.initialized
    THEN [st EXCEPT !.mon = [stopMonitoring(@) EXCEPT !.initialized = FALSE],
                    !.gpio = GpioShutdown(@),
                    !.csv = CsvClosed(@)]
    ELSE st

\* if (I2CService.isInitialized()) I2CService.shutdown(): every device
\* handle is closed
I2cShutdown(st) ==
    IF st.i2c.initialized
    THEN [st EXCEPT !.i2c = [initialized |-> FALSE, connected |-> FALSE]]
    ELSE st

\* a shutdown that closes the I2C handles first
ShutdownStagesI2cFirst(st) ==
    <<st, I2cShutdown(st), MonitorShutdown(I2cShutdown(st))>>

\* the services as shutdown() finds them, after its first call and after
\* its second
ShutdownStages(st) ==
    <<st, MonitorShutdown(st), I2cShutdown(MonitorShutdown(st))>>

\* index.js shutdown(), entered with the select and enable lines as in g:
\* FuseMonitorService.shutdown and I2CService.shutdown when initialized,
\* then process.exit(0)
shutdown(g) ==
    LET end == ShutdownStages(Services(g))[3]
    IN /\ mon' = end.mon
       /\ gpio' = end.gpio
       /\ csv' = end.csv
       /\ i2c' = end.i2c
       /\ proc' = "exited"

\* a run of the timer callback ended with the lines as in g: a rejected
\* collectAndLogData rejects the callback's promise, and the
\* unhandledRejection handler calls shutdown()
AfterSweepRun(g, sw) ==
    IF sw.thrown THEN shutdown(g)
    ELSE /\ gpio' = g
         /\ UNCHANGED <<proc, mon, csv, i2c>>

\* the k-th callback of setInterval runs k periods after the timer was set
TickTime(k) == k * TimerPeriod(mon.interval)

\* new Date().toISOString().split(".")[0] + "Z": the time cut to the second
Timestamp(ms) == ms \div 1000

\* [csvData.timestamp, ...csvData.values].join(",") + "\n"
SweepRow(sw) ==
    [kind |-> "row", size |-> Len(sw.data) + 1, values |-> sw.data,
     timestamp |-> sw.timestamp]

\* the interval timer fires: setInterval's callback calls collectAndLogData
Tick ==
    /\ proc = "running"
    /\ mon.armed > 0
    /\ ticksLeft > 0
    /\ LET now == TickTime(Len(sweeps) + 1)
           sw == [SweepNew EXCEPT !.timestamp = Timestamp(now)]
           r == SweepResume(gpio, sw, "ok")
       IN /\ AfterSweepRun(r.g, r.sw)
          /\ sweeps' = Append(sweeps, r.sw)
    /\ ticksLeft' = ticksLeft - 1
    /\ UNCHANGED <<logs, remote, server, ads, adc, disk, test, tp, lastResult,
                   faultsLeft>>

\* the event sweep s waits for arrives: its timer elapses, or its bus
\* transaction completes with or without an error, or its stream write calls
\* back.  A run that reaches logToCSV calls writeStream.write(row, cb): the
\* stream takes the row in call order or fails, and calls back later
SweepStep(s) ==
    /\ proc = "running"
    /\ InFlight(sweeps[s])
    /\ ~sweeps[s].hung
    /\ \E ev \in {"ok", "err"}, writeOk \in BOOLEAN :
        LET sw == sweeps[s]
            r  == SweepResume(gpio, sw, ev)
            writes == sw.pc # "csvWrite" /\ r.sw.pc = "csvWrite"
            faults == (IF ev = "err" /\ sw.pc \in BusPcs THEN 1 ELSE 0)
                      + (IF writeOk THEN 0 ELSE 1)
        IN /\ sw.pc = "csvWrite" => (ev = "ok") = sw.written
           /\ (ev = "err" /\ sw.pc # "csvWrite") => sw.pc \in BusPcs
           /\ ~writeOk => writes
           /\ faults <= faultsLeft
           /\ AfterSweepRun(r.g, r.sw)
           /\ sweeps' = [sweeps EXCEPT ![s] =
                            IF writes THEN [r.sw EXCEPT !.written = writeOk]
                            ELSE r.sw]
           /\ adc' = IF sw.pc = "cfgWrite" /\ ev = "ok"
                     THEN AdcStart(gpio, sw.mux) ELSE adc
           /\ disk' = IF writes /\ writeOk
                      THEN [disk EXCEPT
                              !.active = Append(disk.active, SweepRow(r.sw))]
                      ELSE disk
           /\ faultsLeft' = faultsLeft - faults
    /\ UNCHANGED <<logs, remote, server, ads, test, tp, lastResult,
                   ticksLeft>>

\* the bus transaction sweep s waits for never calls back
SweepHang(s) ==
    /\ proc = "running"
    /\ sweeps[s].pc \in BusPcs
    /\ ~sweeps[s].hung
    /\ faultsLeft > 0
    /\ sweeps' = [sweeps EXCEPT ![s].hung = TRUE]
    /\ faultsLeft' = faultsLeft - 1
    /\ UNCHANGED <<logs, remote, server, proc, mon, gpio, i2c, ads, adc, csv,
                   disk, test, tp, lastResult, ticksLeft>>

\* SIGTERM or SIGINT: index.js shutdown(), which ends in process.exit(0)
Shutdown ==
    /\ proc # "exited"
    /\ shutdown(gpio)
    /\ UNCHANGED <<logs, remote, server, ads, adc, disk, test, sweeps, tp,
                   lastResult, ticksLeft, faultsLeft>>

Next ==
    \/ Initialize
    \/ TestStep
    \/ Tick
    \/ \E s \in DOMAIN sweeps : SweepStep(s)
    \/ \E s \in DOMAIN sweeps : SweepHang(s)
    \/ Shutdown

Spec == Init /\ [][Next]_vars

(***************************************************************************)
(* One sweep under any pattern of failing channel reads: the program with  *)
(* a single timer tick and a fault for every channel.                      *)
(***************************************************************************)
SweepInit == InitWith(1, totalFuses, <<>>)

SweepSpec == SweepInit /\ [][Next]_vars

(***************************************************************************)
(* The program with an interval longer than a sweep: the timer fires when  *)
(* no sweep is in flight.                                                  *)
(***************************************************************************)
SerialTick ==
    /\ \A s \in DOMAIN sweeps : ~InFlight(sweeps[s])
    /\ Tick

SerialNext ==
    \/ Initialize
    \/ TestStep
    \/ SerialTick
    \/ \E s \in DOMAIN sweeps : SweepStep(s)
    \/ \E s \in DOMAIN sweeps : SweepHang(s)
    \/ Shutdown

SerialSpec == Init /\ [][SerialNext]_vars

(***************************************************************************)
(* The program with further callers of FuseMonitorService: startMonitoring *)
(* and stopMonitoring are also called directly, before initialization and  *)
(* while the program runs.                                                 *)
(***************************************************************************)
MonStartMonitoring ==
    /\ proc \in {"starting", "running"}
    /\ LET r == startMonitoring(mon, EnvUnset)
       IN /\ mon' = r.m
          /\ lastResult' = IF r.ok THEN "ok" ELSE "error"
    /\ UNCHANGED <<logs, remote, server, proc, gpio, i2c, ads, adc, csv, disk,
                   test, sweeps, tp, ticksLeft, faultsLeft>>

MonStopMonitoring ==
    /\ proc \in {"starting", "running"}
    /\ mon' = stopMonitoring(mon)
    /\ lastResult' = "ok"
    /\ UNCHANGED <<logs, remote, server, proc, gpio, i2c, ads, adc, csv, disk,
                   test, sweeps, tp, ticksLeft, faultsLeft>>

MonNext ==
    \/ Initialize
    \/ TestStep
    \/ MonStartMonitoring
    \/ MonStopMonitoring
    \/ SerialTick
    \/ \E s \in DOMAIN sweeps : SweepStep(s)
    \/ \E s \in DOMAIN sweeps : SweepHang(s)
    \/ Shutdown

MonSpec == Init /\ [][MonNext]_vars

(***************************************************************************)
(* The program with a GPIO fault in a sweep: a digitalWrite of the         *)
(* enableMux call that begins the next multiplexer throws, which ends the  *)
(* sweep in the outer catch of collectAndLogData.  The write that throws   *)
(* is the call's first, so the lines stay as they were until the catch     *)
(* disables the multiplexers.                                              *)
(***************************************************************************)
SweepGpioFault(s) ==
    /\ proc = "running"
    /\ InFlight(sweeps[s])
    /\ ~sweeps[s].hung
    /\ faultsLeft > 0
    /\ sweeps[s].pc = "convRead"
    /\ LET run == SweepResume(gpio, sweeps[s], "ok")
           r == CatchSweepError(gpio, [run.sw EXCEPT !.pc = "convRead"])
           writes == r.sw.pc = "csvWrite"
       IN /\ run.sw.pc = "muxDelay"
          /\ AfterSweepRun(r.g, r.sw)
          /\ sweeps' = [sweeps EXCEPT ![s] =
                           [r.sw EXCEPT !.written = writes]]
          /\ disk' = IF writes
                     THEN [disk EXCEPT
                             !.active = Append(disk.active, SweepRow(r.sw))]
                     ELSE disk
    /\ faultsLeft' = faultsLeft - 1
    /\ UNCHANGED <<logs, remote, server, ads, adc, test, tp, lastResult,
                   ticksLeft>>

AbortNext ==
    \/ Initialize
    \/ TestStep
    \/ SerialTick
    \/ \E s \in DOMAIN sweeps : SweepStep(s)
    \/ \E s \in DOMAIN sweeps : SweepGpioFault(s)
    \/ \E s \in DOMAIN sweeps : SweepHang(s)
    \/ Shutdown

AbortSpec == Init /\ [][AbortNext]_vars

(***************************************************************************)
(* The program with a GPIO fault in the startup test: a digitalWrite of    *)
(* the GPIOService call that testSystem makes outside its inner try        *)
(* (enableMux, setMuxChannel, disableAllMux) throws.  The write that       *)
(* throws is the call's first, so the lines stay as they were.             *)
(***************************************************************************)
\* the run r of testSystem called enableMux, setMuxChannel or disableAllMux
GpioCalled(r) == r.t.pc \in {"muxDelay", "chDelay", "done"}

\* testSystem runs on from an event and the GPIOService call of that run
\* throws: the catch of testSystem records the error and returns, and
\* index.js exits since the test did not pass
TestGpioFault ==
    /\ proc = "testing"
    /\ test.pc # "done"
    /\ faultsLeft > 0
    /\ LET r == TestResume(gpio, test, "ok")
           c == TestCatch(gpio, [test EXCEPT !.adcOk = r.t.adcOk,
                                             !.tp = r.t.tp])
       IN /\ GpioCalled(r)
          /\ gpio' = c.g
          /\ test' = c.t
          /\ IF TestPassed(c.t)
             THEN /\ mon' = startMonitoring(mon, EnvUnset).m
                  /\ proc' = "running"
             ELSE /\ proc' = "exited"
                  /\ UNCHANGED mon
    /\ faultsLeft' = faultsLeft - 1
    /\ UNCHANGED <<logs, remote, server, i2c, ads, adc, csv, disk, sweeps, tp,
                   lastResult, ticksLeft>>

TestFaultNext ==
    \/ Initialize
    \/ TestStep
    \/ TestGpioFault
    \/ SerialTick
    \/ \E s \in DOMAIN sweeps : SweepStep(s)
    \/ \E s \in DOMAIN sweeps : SweepHang(s)
    \/ Shutdown

TestFaultSpec == Init /\ [][TestFaultNext]_vars

(***************************************************************************)
(* The program started with CSV_MAX_FILE_SIZE set to a small limit, with   *)
(* room for the header and one row, and an interval longer than a sweep.   *)
(***************************************************************************)
EnvMaxFileSize == 2 * (totalFuses + 1) + 2

SmallFileInitialize == ProgramInitialize(EnvMaxFileSize)

SmallFileNext ==
    \/ SmallFileInitialize
    \/ TestStep
    \/ SerialTick
    \/ \E s \in DOMAIN sweeps : SweepStep(s)
    \/ \E s \in DOMAIN sweeps : SweepHang(s)
    \/ Shutdown

SmallFileSpec == Init /\ [][SmallFileNext]_vars

(***************************************************************************)
(* The program started with DATA_COLLECTION_INTERVAL unset, set to a text  *)
(* that is no number, or set to 0, to a negative or to a positive number.  *)
(***************************************************************************)
IntervalEnvs ==
    {EnvUnset, EnvText, EnvNumber(0), EnvNumber(-100), EnvNumber(1000)}

IntervalTestStep == ProgramTestStep(IntervalEnvs)

IntervalNext ==
    \/ Initialize
    \/ IntervalTestStep
    \/ SerialTick
    \/ \E s \in DOMAIN sweeps : SweepStep(s)
    \/ \E s \in DOMAIN sweeps : SweepHang(s)
    \/ Shutdown

IntervalSpec == Init /\ [][IntervalNext]_vars

(***************************************************************************)
(* The program under the scheduling Node guarantees: a timer that was set  *)
(* fires, and a started flow runs on when the event it waits for arrives.  *)
(* Signals and faults are the environment's and are not forced.            *)
(***************************************************************************)
FairSpec ==
    /\ Spec
    /\ WF_vars(TestStep)
    /\ WF_vars(Tick)
    /\ \A s \in 1 .. MaxTicks : WF_vars(s \in DOMAIN sweeps /\ SweepStep(s))

(***************************************************************************)
(* GPIOService as a module of its own: its methods called in any order by  *)
(* any callers, testPins suspended at its delays while others call.        *)
(***************************************************************************)
Outcome(ok) == IF ok THEN "ok" ELSE "error"

\* initialize(); it throws when pigpio is not available
ApiInitialize ==
    /\ \E available \in BOOLEAN :
        IF available
        THEN gpio' = GpioInitialized(gpio) /\ lastResult' = "ok"
        ELSE gpio' = gpio /\ lastResult' = "error"
    /\ UNCHANGED <<logs, remote, server, proc, mon, i2c, ads, adc, csv, disk,
                   test, sweeps, tp, ticksLeft, faultsLeft>>

ApiSetMuxChannel ==
    /\ \E channel \in -1 .. 16 :
        LET r == setMuxChannel(gpio, channel)
        IN gpio' = r.g /\ lastResult' = Outcome(r.ok)
    /\ UNCHANGED <<logs, remote, server, proc, mon, i2c, ads, adc, csv, disk,
                   test, sweeps, tp, ticksLeft, faultsLeft>>

ApiEnableMux ==
    /\ \E muxIndex \in -1 .. 4 :
        LET r == enableMux(gpio, muxIndex)
        IN gpio' = r.g /\ lastResult' = Outcome(r.ok)
    /\ UNCHANGED <<logs, remote, server, proc, mon, i2c, ads, adc, csv, disk,
                   test, sweeps, tp, ticksLeft, faultsLeft>>

ApiDisableAllMux ==
    /\ LET r == disableAllMux(gpio)
       IN gpio' = r.g /\ lastResult' = Outcome(r.ok)
    /\ UNCHANGED <<logs, remote, server, proc, mon, i2c, ads, adc, csv, disk,
                   test, sweeps, tp, ticksLeft, faultsLeft>>

\* testPins() is called while no other call of it is suspended
ApiTestPins ==
    /\ ~TpWaiting(tp)
    /\ LET r == TestPinsStart(gpio)
       IN /\ gpio' = r.g
          /\ tp' = r.tp
          /\ lastResult' = Outcome(r.ok)
    /\ UNCHANGED <<logs, remote, server, proc, mon, i2c, ads, adc, csv, disk,
                   test, sweeps, ticksLeft, faultsLeft>>

\* a delay(1) of the suspended testPins elapses
ApiTestPinsResume ==
    /\ TpWaiting(tp)
    /\ LET r == TestPinsResume(gpio, tp)
       IN /\ gpio' = r.g
          /\ tp' = r.tp
    /\ UNCHANGED <<logs, remote, server, proc, mon, i2c, ads, adc, csv, disk,
                   test, sweeps, lastResult, ticksLeft, faultsLeft>>

ApiShutdown ==
    /\ gpio' = GpioShutdown(gpio)
    /\ lastResult' = "ok"
    /\ UNCHANGED <<logs, remote, server, proc, mon, i2c, ads, adc, csv, disk,
                   test, sweeps, tp, ticksLeft, faultsLeft>>

GpioNext ==
    \/ ApiInitialize
    \/ ApiSetMuxChannel
    \/ ApiEnableMux
    \/ ApiDisableAllMux
    \/ ApiTestPins
    \/ ApiTestPinsResume
    \/ ApiShutdown

GpioSpec == Init /\ [][GpioNext]_vars

(***************************************************************************)
(* ADS1115Service over I2CService as a module of its own: the services are *)
(* initialized and shut down in any order, and isHealthy and readChannel   *)
(* are called one call at a time; test holds the call in flight (pc, and   *)
(* in mux the channel of a readChannel), lastResult what the last call     *)
(* returned.                                                               *)
(***************************************************************************)
\* I2CService.initialize()
AdsI2cInitialize ==
    /\ test.pc = "idle"
    /\ i2c' = [i2c EXCEPT !.initialized = TRUE]
    /\ lastResult' = "ok"
    /\ UNCHANGED <<logs, remote, server, proc, mon, gpio, ads, adc, csv, disk,
                   test, sweeps, tp, ticksLeft, faultsLeft>>

\* I2CService.shutdown(): the device handles are closed and forgotten
AdsI2cShutdown ==
    /\ i2c' = [initialized |-> FALSE, connected |-> FALSE]
    /\ UNCHANGED <<logs, remote, server, proc, mon, gpio, ads, adc, csv, disk,
                   test, sweeps, tp, lastResult, ticksLeft, faultsLeft>>

\* ADS1115Service.initialize(): connectDevice, then isConnected = true
AdsInitialize ==
    /\ test.pc = "idle"
    /\ IF connectDevice(i2c)
       THEN /\ i2c' = [i2c EXCEPT !.connected = TRUE]
            /\ ads' = [ads EXCEPT !.isConnected = TRUE]
            /\ lastResult' = "ok"
       ELSE /\ lastResult' = "error"
            /\ UNCHANGED <<i2c, ads>>
    /\ UNCHANGED <<logs, remote, server, proc, mon, gpio, adc, csv, disk,
                   test, sweeps, tp, ticksLeft, faultsLeft>>

\* setGain(gain), between calls
AdsSetGain ==
    /\ test.pc = "idle"
    /\ \E gain \in Gains : ads' = [ads EXCEPT !.gain = gain]
    /\ UNCHANGED <<logs, remote, server, proc, mon, gpio, i2c, adc, csv, disk,
                   test, sweeps, tp, lastResult, ticksLeft, faultsLeft>>

\* what the caller of a call that ended at rpc gets
CallResult(rpc) ==
    CASE rpc = "return" -> "ok"
      [] rpc = "throw"  -> "error"
      [] OTHER          -> rpc

CallEnded(rpc) == rpc \in {"return", "throw", "true", "false"}

\* the call has got to rpc: it goes on waiting there, or it ended
AdsCallAt(rpc, channel) ==
    IF CallEnded(rpc)
    THEN /\ test' = TestNew
         /\ lastResult' = CallResult(rpc)
    ELSE /\ test' = [TestNew EXCEPT !.pc = rpc, !.mux = channel]
         /\ lastResult' = "pending"

\* isHealthy() is called
AdsIsHealthy ==
    /\ test.pc = "idle"
    /\ AdsCallAt(IsHealthyStart(ads, i2c), 0)
    /\ UNCHANGED <<logs, remote, server, proc, mon, gpio, i2c, ads, adc, csv,
                   disk, sweeps, tp, ticksLeft, faultsLeft>>

\* readChannel(channel) is called
AdsReadChannel ==
    /\ test.pc = "idle"
    /\ \E channel \in -1 .. 4 :
        AdsCallAt(ReadChannelStart(ads, i2c, channel), channel)
    /\ UNCHANGED <<logs, remote, server, proc, mon, gpio, i2c, ads, adc, csv,
                   disk, sweeps, tp, ticksLeft, faultsLeft>>

\* the event the call in flight waits for arrives: its bus transaction
\* completes, with or without an error, or its delay elapses
AdsResume ==
    /\ test.pc # "idle"
    /\ \E ev \in {"ok", "err"} :
        /\ ev = "err" => (test.pc \in TestBusPcs /\ faultsLeft > 0)
        /\ AdsCallAt(IF test.pc \in HealthPcs
                     THEN IsHealthyResume(test.pc, ev)
                     ELSE ReadChannelResume(i2c, test.pc, ev),
                     test.mux)
        /\ adc' = IF test.pc = "cfgWrite" /\ ev = "ok"
                  THEN AdcStart(gpio, test.mux) ELSE adc
        /\ faultsLeft' = IF ev = "err" THEN faultsLeft - 1 ELSE faultsLeft
    /\ UNCHANGED <<logs, remote, server, proc, mon, gpio, i2c, ads, csv, disk,
                   sweeps, tp, ticksLeft>>

AdsNext ==
    \/ AdsI2cInitialize
    \/ AdsI2cShutdown
    \/ AdsInitialize
    \/ AdsSetGain
    \/ AdsIsHealthy
    \/ AdsReadChannel
    \/ AdsResume

AdsSpec == Init /\ [][AdsNext]_vars

(***************************************************************************)
(* The end of a readChannel call as a function of the device's conversion  *)
(* register: the device sends the register's two bytes, high byte first,   *)
(* readWordData puts them together and convertRawToVoltage turns the word  *)
(* into a voltage.  The register holds any 16-bit word and the service any *)
(* documented gain.                                                        *)
(***************************************************************************)
\* the words a 16-bit register can hold
Words == 0 .. 65535

\* the two bytes i2c.read(2) hands over for a register holding w
BigEndian(w) == <<w \div 256, w % 256>>

\* (result[0] << 8) | result[1]
WordData(result) == result[1] * 256 + result[2]

\* getVoltageRange(), in millivolts
getVoltageRange(gain) ==
    CASE gain = 0    -> 6144
      [] gain = 512  -> 4096
      [] gain = 1024 -> 2048
      [] gain = 1536 -> 1024
      [] gain = 2048 -> 512
      [] gain = 2560 -> 256
      [] OTHER       -> 4096

\* a conversion that takes 32768 for a positive value
SignedAbove32768(rawValue) ==
    IF rawValue > 32768 THEN rawValue - 65536 ELSE rawValue

\* let value = rawValue; if (value > 32767) value -= 65536
Signed(rawValue) ==
    IF rawValue > 32767 THEN rawValue - 65536 ELSE rawValue

\* convertRawToVoltage(rawValue): (value / 32767.0) * voltageRange, kept
\* exact as millivolts * 32767
convertRawToVoltage(rawValue, gain) ==
    [raw |-> rawValue,
     value |-> Signed(rawValue),
     voltage |-> Signed(rawValue) * getVoltageRange(gain)]

ConvInit ==
    \E w \in Words, gain \in Gains :
        /\ proc = "starting"
        /\ mon = [initialized |-> FALSE, monitoring |-> FALSE,
                  timer |-> FALSE, armed |-> 0, interval |-> 0,
                  intervalEnv |-> EnvUnset]
        /\ gpio = GpioConstructed
        /\ i2c = [initialized |-> TRUE, connected |-> TRUE]
        /\ ads = [isConnected |-> TRUE, gain |-> gain]
        /\ adc = [sel |-> 0, conv |-> w, cfg |-> ConfigWord(0, gain)]
        /\ csv = CsvConstructed
        /\ disk = [exists |-> FALSE, active |-> <<>>, rotated |-> <<>>]
        /\ test = [TestNew EXCEPT !.pc = "convRead"]
        /\ sweeps = <<>>
        /\ tp = TpIdle
        /\ logs = <<>>
        /\ remote = RemoteNew
        /\ server = ServerNew
        /\ lastResult = [raw |-> 0, value |-> 0, voltage |-> 0]
        /\ ticksLeft = 0
        /\ faultsLeft = 0

\* the read of the conversion register completes: readWordData returns the
\* word and readChannel converts it
ConvRead ==
    /\ test.pc = "convRead"
    /\ test' = [test EXCEPT !.pc = "idle"]
    /\ lastResult' =
          convertRawToVoltage(WordData(BigEndian(adc.conv)), ads.gain)
    /\ UNCHANGED <<logs, remote, server, proc, mon, gpio, i2c, ads, adc, csv,
                   disk, sweeps, tp, ticksLeft, faultsLeft>>

ConvSpec == ConvInit /\ [][ConvRead]_vars

(***************************************************************************)
(* BufferedRemoteSink as a module of its own: results 1, 2, ... are handed *)
(* to deliver in the order they are produced, the endpoint goes down and   *)
(* comes back, and the background retry runs between deliveries.  A        *)
(* transmission to an endpoint that is down fails; one to an endpoint that *)
(* is up succeeds or fails (a non-success response).                       *)
(***************************************************************************)
\* a RetryBuffer entry for a result whose delivery failed
RetryEntry(result) == [result |-> result, attempts |-> 1]

\* a push that, on a full buffer, turns the newest result away
PushDropNewest(buffer, entry, cap) ==
    IF Len(buffer) >= cap THEN buffer ELSE Append(buffer, entry)

\* buffer discipline: when full, the oldest buffered entry is evicted to
\* admit the newest
Push(buffer, entry, cap) ==
    IF Len(buffer) >= cap
    THEN Append(Tail(buffer), entry)
    ELSE Append(buffer, entry)

\* the entries a push evicts
Evicted(buffer, cap) ==
    IF Len(buffer) >= cap THEN {buffer[1].result} ELSE {}

\* a retry policy that attempts the newest buffered entry
RetryNewest(buffer) == Len(buffer)

\* retry policy: the oldest buffered entry first
RetryIndex(buffer) == 1

\* the buffer without its entry at index i
Without(buffer, i) ==
    [k \in 1 .. (Len(buffer) - 1) |->
        IF k < i THEN buffer[k] ELSE buffer[k + 1]]

\* deliver(result): transmit; on success nothing is retained, on failure
\* the result is pushed onto the buffer
deliver(r, result, ok) ==
    IF ok
    THEN [r EXCEPT !.produced = result,
                   !.delivered = Append(@, [result |-> result,
                                            retry |-> FALSE])]
    ELSE [r EXCEPT !.produced = result,
                   !.buffer = Push(@, RetryEntry(result), Capacity),
                   !.evicted = @ \cup Evicted(r.buffer, Capacity)]

\* one background retry attempt
retry(r, ok) ==
    LET i == RetryIndex(r.buffer)
    IN IF ok
       THEN [r EXCEPT !.buffer = Without(@, i),
                      !.delivered = Append(@, [result |-> r.buffer[i].result,
                                               retry |-> TRUE])]
       ELSE [r EXCEPT !.buffer[i].attempts = @ + 1]

RemoteFrame ==
    UNCHANGED <<proc, mon, gpio, i2c, ads, adc, csv, disk, test, sweeps, tp,
                logs, server, lastResult, ticksLeft, faultsLeft>>

RemoteDeliver ==
    /\ remote.produced < MaxResults
    /\ \E ok \in BOOLEAN :
        /\ ok => remote.up
        /\ remote' = deliver(remote, remote.produced + 1, ok)
    /\ RemoteFrame

RemoteRetry ==
    /\ remote.buffer # <<>>
    /\ \E ok \in BOOLEAN :
        /\ ok => remote.up
        /\ ~ok => remote.buffer[RetryIndex(remote.buffer)].attempts
                    < MaxAttempts
        /\ remote' = retry(remote, ok)
    /\ RemoteFrame

EndpointDown ==
    /\ remote.up
    /\ remote' = [remote EXCEPT !.up = FALSE]
    /\ RemoteFrame

EndpointUp ==
    /\ ~remote.up
    /\ remote' = [remote EXCEPT !.up = TRUE]
    /\ RemoteFrame

RemoteNext ==
    \/ RemoteDeliver
    \/ RemoteRetry
    \/ EndpointDown
    \/ EndpointUp

RemoteSpec == Init /\ [][RemoteNext]_vars

(***************************************************************************)
(* The collection server: app.post("/data").  A step is one callback: the  *)
(* handler itself, the callback of the insert into readings, or the        *)
(* callback of one insert into fuse_readings.  The database runs the       *)
(* statement and calls back in the same step; the inserts of one request   *)
(* call back in any order.  An insert into fuse_readings fails on a null   *)
(* voltage (voltage REAL NOT NULL) and whenever the database fails.        *)
(***************************************************************************)
\* the readings objects of a body: fuse number -> voltage
ReadingsObjects ==
    UNION {[fuses -> {"number", "null"}] : fuses \in SUBSET (1 .. MaxFuses)}

Bodies ==
    [timestamp : {"valid", "invalid", "missing"}, device_id : BOOLEAN,
     hasReadings : BOOLEAN, readings : ReadingsObjects]

\* res.json / res.status(...).json on the request
Respond(request, response) ==
    [request EXCEPT !.pc = "done", !.responses = Append(@, response)]

\* the response bodies: {error} with status 400 or 500, or
\* {success: true, reading_id, fuses_recorded} with status 200
Response(status, readingId, fuseCount) ==
    [status |-> status, success |-> status = 200, reading_id |-> readingId,
     fuses_recorded |-> fuseCount]

RequestNew(body) ==
    [readings |-> body.readings, pc |-> "insertReading", readingId |-> 0,
     fuseCount |-> 0, completed |-> 0, pending |-> {}, responses |-> <<>>]

\* the handler up to db.run(insertReading, ...)
postData(body) ==
    IF body.timestamp # "valid"
    THEN Respond(RequestNew(body), Response(400, 0, 0))
    ELSE IF ~body.device_id \/ ~body.hasReadings
    THEN Respond(RequestNew(body), Response(400, 0, 0))
    ELSE RequestNew(body)

\* the callback of the insert into readings
insertReadingCallback(request, err, lastID) ==
    IF err THEN Respond(request, Response(500, 0, 0))
    ELSE LET readingId == lastID
             fuseCount == Cardinality(DOMAIN request.readings)
             started == [request EXCEPT !.readingId = readingId,
                                        !.fuseCount = fuseCount]
         IN IF fuseCount = 0
            THEN Respond(started, Response(200, readingId, 0))
            ELSE [started EXCEPT !.pc = "insertFuses",
                                 !.pending = DOMAIN request.readings]

\* the callback of one insert into fuse_readings
insertFuseCallback(request, fuseNum, err) ==
    LET completed == request.completed + 1
        counted == [request EXCEPT !.completed = completed,
                                   !.pending = @ \ {fuseNum}]
    IN IF completed = request.fuseCount
       THEN Respond(counted,
                    Response(200, request.readingId, request.fuseCount))
       ELSE counted

ServerFrame ==
    UNCHANGED <<proc, mon, gpio, i2c, ads, adc, csv, disk, test, sweeps, tp,
                logs, remote, lastResult, ticksLeft, faultsLeft>>

PostData ==
    /\ Len(server.requests) < MaxRequests
    /\ \E body \in Bodies :
        server' = [server EXCEPT !.requests = Append(@, postData(body))]
    /\ ServerFrame

\* the database fails the statement: the environment's choice
DbFaults == IF server.dbFaultsLeft > 0 THEN BOOLEAN ELSE {FALSE}

InsertReadingCallback ==
    /\ \E i \in DOMAIN server.requests, fault \in DbFaults :
        /\ server.requests[i].pc = "insertReading"
        /\ server' =
            [server EXCEPT
                !.lastID = IF fault THEN @ ELSE @ + 1,
                !.dbFaultsLeft = IF fault THEN @ - 1 ELSE @,
                !.requests[i] =
                    insertReadingCallback(@, fault,
                                          IF fault THEN server.lastID
                                          ELSE server.lastID + 1)]
    /\ ServerFrame

InsertFuseCallback ==
    /\ \E i \in DOMAIN server.requests, fault \in DbFaults :
        /\ server.requests[i].pc = "insertFuses"
        /\ \E fuseNum \in server.requests[i].pending :
            LET request == server.requests[i]
                err == fault \/ request.readings[fuseNum] = "null"
            IN server' =
                [server EXCEPT
                    !.fuse_readings =
                        IF err THEN @
                        ELSE @ \union {[reading_id |-> request.readingId,
                                        fuse_number |-> fuseNum]},
                    !.dbFaultsLeft = IF fault THEN @ - 1 ELSE @,
                    !.requests[i] = insertFuseCallback(@, fuseNum, err)]
    /\ ServerFrame

ServerNext ==
    \/ PostData
    \/ InsertReadingCallback
    \/ InsertFuseCallback

ServerSpec == Init /\ [][ServerNext]_vars

(***************************************************************************)
(* CSVLogger as a module of its own: initialize once, then writeHeaders,   *)
(* logData and close called in any order, one call at a time (a logData    *)
(* is awaited before the next call).  The file may exist from an earlier   *)
(* run.                                                                    *)
(***************************************************************************)
\* what an earlier run left in the file
OldLine(size) == [kind |-> "old", size |-> size, values |-> <<>>]

CsvInit ==
    \E size \in 0 .. MaxExisting :
        InitWith(0, MaxFaults, IF size = 0 THEN <<>> ELSE <<OldLine(size)>>)

\* initialize(filePath, {maxFileSize}) with a limit of at most maxLimit
LoggerInitialize(maxLimit) ==
    /\ ~csv.initialized
    /\ csv.stream = "null"
    /\ csv.maxFileSize = 0
    /\ \E option \in 0 .. maxLimit, env \in {0, maxLimit} :
        csv' = CsvInitialized(csv, disk, MaxFileSizeOption(option, env))
    /\ disk' = DiskOpened(disk)
    /\ lastResult' = "ok"
    /\ UNCHANGED <<proc, mon, gpio, i2c, ads, adc, test, sweeps, tp, logs,
                   remote, server, ticksLeft, faultsLeft>>

CsvApiInitialize == LoggerInitialize(MaxLimit)

LogsReturned == \A k \in DOMAIN logs : LogReturned(logs[k])

\* writeHeaders(headers)
CsvApiWriteHeaders ==
    /\ LogsReturned
    /\ \E h \in 1 .. MaxHeader :
        LET r == writeHeaders(csv, disk, h)
        IN /\ csv' = r.c
           /\ disk' = r.d
           /\ lastResult' = Outcome(r.ok)
    /\ UNCHANGED <<proc, mon, gpio, i2c, ads, adc, test, sweeps, tp, logs,
                   remote, server, ticksLeft, faultsLeft>>

\* logData(data) is called, for at most the maxLogs-th time, with at most
\* maxValues values; the rename or the write may fail
LoggerLogData(maxLogs, maxValues) ==
    /\ Len(logs) < maxLogs
    /\ LogsReturned
    /\ \E n \in 0 .. maxValues, renameOk \in BOOLEAN, writeOk \in BOOLEAN :
        LET r == logDataStart(csv, disk, [i \in 1 .. n |-> Sentinel],
                              renameOk, writeOk)
            rotates == /\ csv.initialized
                       /\ csv.fileSize + n + 1 > csv.maxFileSize
            writes == r.call.pc = "write"
            faulty == (rotates /\ ~renameOk) \/ (writes /\ ~writeOk)
        IN /\ ~renameOk => rotates
           /\ ~writeOk => (writes /\ renameOk)
           /\ faulty => faultsLeft > 0
           /\ csv' = r.c
           /\ disk' = r.d
           /\ logs' = Append(logs, r.call)
           /\ faultsLeft' = IF faulty THEN faultsLeft - 1 ELSE faultsLeft
    /\ UNCHANGED <<proc, mon, gpio, i2c, ads, adc, test, sweeps, tp,
                   remote, server, lastResult, ticksLeft>>

CsvApiLogData == LoggerLogData(MaxLogs, MaxValues)

\* the event a logData call waits for arrives: rotateFile's promise settles
\* and the line is written, or the write calls back
CsvApiLogDataResume ==
    /\ logs # <<>>
    /\ ~LogReturned(logs[Len(logs)])
    /\ \E writeOk \in BOOLEAN :
        LET call == logs[Len(logs)]
            r == logDataResume(csv, disk, call, writeOk)
            faulty == ~writeOk
        IN /\ faulty =>
                (call.pc = "rotated" /\ r.call.pc = "write" /\ faultsLeft > 0)
           /\ csv' = r.c
           /\ disk' = r.d
           /\ logs' = [logs EXCEPT ![Len(logs)] = r.call]
           /\ faultsLeft' = IF faulty THEN faultsLeft - 1 ELSE faultsLeft
    /\ UNCHANGED <<proc, mon, gpio, i2c, ads, adc, test, sweeps, tp,
                   remote, server, lastResult, ticksLeft>>

\* close()
CsvApiClose ==
    /\ LogsReturned
    /\ csv.initialized
    /\ csv' = CsvClosed(csv)
    /\ lastResult' = "ok"
    /\ UNCHANGED <<proc, mon, gpio, i2c, ads, adc, disk, test, sweeps, tp,
                   logs, remote, server, ticksLeft, faultsLeft>>

CsvNext ==
    \/ CsvApiInitialize
    \/ CsvApiWriteHeaders
    \/ CsvApiLogData
    \/ CsvApiLogDataResume
    \/ CsvApiClose

CsvSpec == CsvInit /\ [][CsvNext]_vars

(***************************************************************************)
(* CSVLogger as FuseMonitorService.initialize sets it up: initialize and    *)
(* ensureCSVHeader's writeHeaders in one step, then writeHeaders, logData   *)
(* and close in any order, one call at a time.  The file may be one that   *)
(* an earlier run left: a header line, and maybe a row.                     *)
(***************************************************************************)
EarlierFiles ==
    {<<>>, <<HeaderLine(1)>>, <<HeaderLine(1), RowLine(<<>>)>>}

SinkInit == \E file \in EarlierFiles : InitWith(0, MaxFaults, file)

\* CSVLogger.initialize(csvFilePath); await this.ensureCSVHeader()
SinkOpen ==
    /\ ~csv.initialized
    /\ csv.stream = "null"
    /\ csv.maxFileSize = 0
    /\ \E option \in 0 .. MaxLimit, env \in {0, MaxLimit},
          h \in 1 .. MaxHeader :
        LET c == CsvInitialized(csv, disk, MaxFileSizeOption(option, env))
            r == writeHeaders(c, DiskOpened(disk), h)
        IN /\ csv' = r.c
           /\ disk' = r.d
           /\ lastResult' = Outcome(r.ok)
    /\ UNCHANGED <<proc, mon, gpio, i2c, ads, adc, test, sweeps, tp, logs,
                   remote, server, ticksLeft, faultsLeft>>

SinkNext ==
    \/ SinkOpen
    \/ CsvApiWriteHeaders
    \/ CsvApiLogData
    \/ CsvApiLogDataResume
    \/ CsvApiClose

SinkSpec == SinkInit /\ [][SinkNext]_vars

(***************************************************************************)
(* CSVLogger appending to a new file without a header: initialize, then    *)
(* logData calls one after the other.                                      *)
(***************************************************************************)
AppendInit == InitWith(0, MaxFaults, <<>>)

AppendInitialize == LoggerInitialize(AppendLimit)

AppendLogData == LoggerLogData(AppendLogs, AppendValues)

AppendNext ==
    \/ AppendInitialize
    \/ AppendLogData
    \/ CsvApiLogDataResume

AppendSpec == AppendInit /\ [][AppendNext]_vars

(***************************************************************************)
(* The claims.                                                             *)
(***************************************************************************)
SweepIds == DOMAIN sweeps
SweepsInFlight == {s \in SweepIds : InFlight(sweeps[s])}
Delivered(sw) == sw.pc \in {"csvWrite", "done"}

\* C1: at most one sweep (one execution of collectAndLogData) is in flight
\* at any time; a tick that fires during a sweep starts no new one.
C1_AtMostOneSweepInFlight ==
    proc = "running" => Cardinality(SweepsInFlight) <= 1

C3_AtMostOneMuxEnabled == Cardinality(EnabledMuxes(gpio)) <= 1

\* C4: every sweep yields exactly totalFuses (64 at full size) voltage
\* entries, whichever subset of its channel reads fails.
C4_SweepYieldsAllEntries ==
    \A s \in SweepIds :
        Delivered(sweeps[s]) => Len(sweeps[s].data) = totalFuses

\* a sweep has ended in which the first and the last read failed and the
\* others did not
C4_Witness ==
    \E s \in SweepIds :
        /\ sweeps[s].pc = "done"
        /\ sweeps[s].failed = {1, totalFuses}

C6_ReadsInIndexOrder ==
    \A s \in SweepIds :
        LET sw == sweeps[s] IN
        /\ sw.pc = "muxDelay" => Len(sw.data) = sw.mux * channelsPerMux
        /\ sw.pc \in ReadPcs \cup {"chDelay"} =>
                /\ sw.mux \in 0 .. (totalMuxes - 1)
                /\ sw.ch \in 0 .. (channelsPerMux - 1)
                /\ Len(sw.data) = fuseNumber(sw.mux, sw.ch) - 1
        /\ Delivered(sw) => Len(sw.data) = totalFuses
        /\ \A i \in 1 .. Len(sw.data) : sw.data[i] \in {Sentinel, i}

\* a sweep waits for the conversion of the last channel with every earlier
\* entry stored
C6_Witness ==
    \E s \in SweepIds :
        /\ sweeps[s].pc = "convRead"
        /\ sweeps[s].mux = totalMuxes - 1
        /\ sweeps[s].ch = channelsPerMux - 1
        /\ Len(sweeps[s].data) = totalFuses - 1

\* the lines select (mux, ch) and the delays after both changes have elapsed
RouteHeld(sw) ==
    /\ sw.enSettled
    /\ sw.selSettled
    /\ EnabledMuxes(gpio) = {sw.mux}
    /\ getCurrentChannel(gpio) = sw.ch

\* C7: from the start of a channel's conversion until its result is read
\* the settle delays after that channel's setMuxChannel (and enableMux) have
\* elapsed and the address and enable lines still stand as that channel set
\* them.
C7_RouteSettledAndHeld ==
    proc = "running" =>
        \A s \in SweepsInFlight :
            sweeps[s].pc \in ReadPcs => RouteHeld(sweeps[s])

\* C8: on a graceful-shutdown signal a sweep in flight is allowed to finish
\* before the multiplexers are disabled and the handles released: the
\* process has not exited while a sweep is in flight.
C8_ShutdownLetsSweepFinish ==
    proc = "exited" => SweepsInFlight = {}

\* C9: every bus transaction is bounded by a timeout, so every started
\* sweep eventually finishes and returns to Idle (unless the process is
\* told to exit first).
C9_EverySweepFinishes ==
    \A s \in 1 .. MaxTicks :
        (s \in SweepsInFlight) ~> (s \notin SweepsInFlight \/ proc = "exited")

ActiveFile == disk.active
LastLine == ActiveFile[Len(ActiveFile)]
HeaderBytes == IF ActiveFile # <<>> /\ ActiveFile[1].kind = "header"
               THEN ActiveFile[1].size ELSE 0
Larger(a, b) == IF a >= b THEN a ELSE b
RowAppended == ActiveFile # <<>> /\ LastLine.kind = "row"

DoneLogs == {k \in DOMAIN logs : logs[k].pc = "done"}
\* ceil(n / k) for k > 0
CeilDiv(n, k) == (n + k - 1) \div k
\* every logData call appended its line, each of L bytes, L within the limit
AllLinesOf(L) ==
    /\ L <= csv.maxFileSize
    /\ \A k \in DOMAIN logs : logs[k].pc = "done" /\ logs[k].line.size = L

\* a logData call is made in this step
LogDataCalled == Len(logs') = Len(logs) + 1
NewLine == logs'[Len(logs')].line
CrossesLimit ==
    csv.initialized /\ csv.fileSize + NewLine.size > csv.maxFileSize

\* C11: a logData call runs rotateFile exactly when the tracked size plus
\* the line's bytes exceeds maxFileSize, and then once; n lines of L bytes
\* appended to an empty header-less file with limit M >= L leave
\* ceil(n / floor(M / L)) - 1 rotated files.
C11_RotatesOncePerCrossing ==
    /\ [][/\ LogDataCalled =>
                csv'.rotationCount =
                    csv.rotationCount + (IF CrossesLimit THEN 1 ELSE 0)
          /\ ~LogDataCalled => csv'.rotationCount = csv.rotationCount
          /\ Len(disk'.rotated) \in
                {Len(disk.rotated),
                 csv'.rotationCount - csv.rotationCount + Len(disk.rotated)}
         ]_vars
    /\ [](\A L \in 1 .. (AppendValues + 1) :
            (DoneLogs # {} /\ AllLinesOf(L)) =>
                Len(disk.rotated) =
                    CeilDiv(Cardinality(DoneLogs), csv.maxFileSize \div L) - 1)

\* five lines of one byte were appended with a limit of four bytes: one
\* rotated file of four lines, and the fifth line in the active file
C11_Witness ==
    /\ csv.maxFileSize = 4
    /\ Cardinality(DoneLogs) = 5
    /\ AllLinesOf(1)
    /\ Len(disk.rotated) = 1
    /\ Len(disk.rotated[1].lines) = 4
    /\ Len(disk.active) = 1

\* ---- C12 ----
\* the files the logger has written to: the active file and each rotated one
SinkFiles ==
    {disk.active} \cup {disk.rotated[i].lines : i \in DOMAIN disk.rotated}

HeaderFirstOnce(f) ==
    /\ f # <<>>
    /\ f[1].kind = "header"
    /\ \A i \in 2 .. Len(f) : f[i].kind # "header"

SinkOpened == csv.maxFileSize # 0

\* C12: once the logger is set up (initialize, then ensureCSVHeader), the
\* active file and every rotated file hold a header line as their first line
\* and no other header line, whatever writeHeaders, logData and close calls
\* follow and whichever of them fail
C12_HeaderOncePerFile ==
    SinkOpened => \A f \in SinkFiles : HeaderFirstOnce(f)

\* a rotation happened after a row, a row followed it, and both files start
\* with their one header
C12_Witness ==
    /\ Len(disk.rotated) = 1
    /\ Len(disk.rotated[1].lines) >= 2
    /\ Len(disk.active) >= 2
    /\ disk.active[Len(disk.active)].kind = "row"
    /\ \A f \in SinkFiles : HeaderFirstOnce(f)

\* ---- C13 ----
\* a logData call throws in this step: in the step that makes the call, or
\* in a later step of the call
DeliveryFails ==
    \/ /\ LogDataCalled
       /\ logs'[Len(logs')].pc = "failed"
    \/ /\ logs # <<>>
       /\ Len(logs') = Len(logs)
       /\ ~LogReturned(logs[Len(logs)])
       /\ logs'[Len(logs')].pc = "failed"

\* C13: a step in which a delivery to an initialized logger fails leaves the
\* logger's tracked file size, rotation counter, write stream and stored
\* header as they were
C13_FailedDeliveryKeepsState ==
    [][(csv.initialized /\ DeliveryFails) => csv' = csv]_vars

\* ---- C14 ----
\* C14: collectAndLogData never rejects; while the process runs the interval
\* timer is armed; the process leaves the running state only in a step of
\* the signal handler, never in a step of a sweep; and once no sweep is in
\* flight the next tick can start one
C14_ErrorsDoNotStopMonitoring ==
    /\ [](\A s \in DOMAIN sweeps : ~sweeps[s].thrown)
    /\ [](proc = "running" => (mon.timer /\ mon.monitoring))
    /\ [][(proc = "running" /\ proc' # "running") =>
            (sweeps' = sweeps /\ faultsLeft' = faultsLeft)]_vars
    /\ []((proc = "running" /\ ticksLeft > 0
             /\ \A s \in DOMAIN sweeps : ~InFlight(sweeps[s]))
            => ENABLED SerialTick)

\* a sweep had a failed read or a failed write, and a later tick started the
\* next sweep, which is under way
C14_Witness ==
    /\ Len(sweeps) = 2
    /\ sweeps[1].pc = "done"
    /\ faultsLeft < MaxFaults
    /\ ~sweeps[1].hung
    /\ InFlight(sweeps[2])
    /\ proc = "running"
    /\ mon.timer

\* ---- C15 ----
Rows(f) == {i \in DOMAIN f : f[i].kind = "row"}

\* the sweeps that assembled all their entries and went through logToCSV's
\* write
CompletedSweeps ==
    {s \in DOMAIN sweeps :
        /\ sweeps[s].pc \in {"csvWrite", "done"}
        /\ Len(sweeps[s].data) = totalFuses}

\* C15: the data file holds exactly one row for every sweep that assembled
\* its entries and handed them to the file: k completed sweeps, k rows
C15_OneRowPerSweep ==
    Cardinality(Rows(disk.active)) = Cardinality(CompletedSweeps)

\* ---- C16 ----
\* C16: the rows of the data file stand in strictly increasing order of
\* their timestamps
C16_RowsInTimestampOrder ==
    \A i, j \in Rows(disk.active) :
        i < j => disk.active[i].timestamp < disk.active[j].timestamp

\* ---- C17 ----
\* C17: while the program runs, the active data file holds no more bytes
\* than the logger's limit
C17_ActiveFileWithinLimit ==
    csv.initialized => FileBytes(disk.active) <= csv.maxFileSize

\* ---- C18 ----
\* a call on GPIOService g throws and leaves every pin as it was
Refused(r, g) == ~r.ok /\ r.g = g

\* C18: whenever the GPIO service is not initialized (never initialized, or
\* shut down), setMuxChannel with any channel, enableMux with any index and
\* disableAllMux throw and change no pin; and no step other than initialize
\* changes a pin of a service that is not initialized
C18_UninitializedCallsRefused ==
    /\ [](~gpio.initialized =>
            /\ \A channel \in -1 .. 16 :
                    Refused(setMuxChannel(gpio, channel), gpio)
            /\ \A muxIndex \in -1 .. 4 :
                    Refused(enableMux(gpio, muxIndex), gpio)
            /\ Refused(disableAllMux(gpio), gpio))
    /\ [][(~gpio.initialized /\ ~gpio'.initialized) => gpio' = gpio]_vars

\* the service was initialized, a channel was selected, the service was shut
\* down, and the call after that threw
C18_Witness ==
    /\ ~gpio.initialized
    /\ lastResult = "error"
    /\ \E k \in ControlPin : gpio.sel[k] = 1
    /\ EnabledMuxes(gpio) = {}

\* ---- C19 ----
\* the system test returned with a healthy ADC and without an error
TestHealthy == test.pc = "done" /\ test.adcOk /\ ~test.error

\* C19: the interval timer is armed only while the I2C, GPIO, ADC and CSV
\* services are initialized and the system test has returned a healthy ADC
\* and no error; a sweep has started only if that test passed, so a process
\* that exits on a failed start or a failed test has started none
C19_TimerOnlyAfterStartup ==
    /\ mon.timer =>
            /\ i2c.initialized
            /\ gpio.initialized
            /\ ads.isConnected
            /\ csv.initialized
            /\ mon.initialized
            /\ TestHealthy
    /\ sweeps # <<>> => TestHealthy
    /\ (proc = "exited" /\ ~TestHealthy) => sweeps = <<>>

\* the start and the test succeeded, the timer is armed and a sweep runs
C19_Witness ==
    /\ proc = "running"
    /\ mon.timer
    /\ TestHealthy
    /\ i2c.initialized /\ gpio.initialized /\ csv.initialized
    /\ sweeps # <<>>

\* ---- C20 ----
\* C20: in every state of the service, a call of disableAllMux returns
\* without throwing and leaves no multiplexer enabled
C20_DisableAllMuxNeverThrows ==
    /\ disableAllMux(gpio).ok
    /\ EnabledMuxes(disableAllMux(gpio).g) = {}

\* ---- C21 ----
Channels == 0 .. (InputsPerMux - 1)

\* C21: on an initialized service, in whatever state its lines are, for
\* every channel c of 0..15 setMuxChannel(c) returns with line Sk at bit k
\* of c, getCurrentChannel then returns c, and a second setMuxChannel(c)
\* leaves every line as the first left it
C21_SetMuxChannelRoundTrip ==
    gpio.initialized =>
        \A c \in Channels :
            LET r == setMuxChannel(gpio, c)
            IN /\ r.ok
               /\ \A k \in ControlPin : r.g.sel[k] = Bit(c, k)
               /\ r.g.en = gpio.en
               /\ getCurrentChannel(r.g) = c
               /\ setMuxChannel(r.g, c) = Ret(TRUE, r.g)

\* setMuxChannel(10) was called on an initialized service: S1 and S3 high
C21_Witness ==
    /\ gpio.initialized
    /\ lastResult = "ok"
    /\ gpio.sel = [k \in ControlPin |-> Bit(10, k)]
    /\ getCurrentChannel(gpio) = 10

\* ---- C22 ----
\* the route of a logical index: mux = (index - 1) div perMux,
\* channel = (index - 1) mod perMux
RouteMux(perMux, i) == (i - 1) \div perMux
RouteChannel(perMux, i) == (i - 1) % perMux

\* FuseIndex and the route are inverse bijections between 1 .. 4 * perMux
\* and the pairs (mux, channel)
IndexBijection(perMux) ==
    /\ \A m \in Mux, c \in 0 .. (perMux - 1) :
            LET i == FuseIndex(perMux, m, c)
            IN /\ i \in 1 .. (totalMuxes * perMux)
               /\ RouteMux(perMux, i) = m
               /\ RouteChannel(perMux, i) = c
    /\ \A i \in 1 .. (totalMuxes * perMux) :
            /\ RouteMux(perMux, i) \in Mux
            /\ RouteChannel(perMux, i) \in 0 .. (perMux - 1)
            /\ FuseIndex(perMux, RouteMux(perMux, i),
                         RouteChannel(perMux, i)) = i

\* C22: the index of (mux, channel) and the route of an index are inverse
\* bijections, for the 16 channels of the hardware (1..64) and for the
\* channelsPerMux of the sweep; and the entry a sweep reads at (mux, ch) is
\* stored at the position fuseNumber(mux, ch), whose route is (mux, ch)
C22_IndexRouteBijection ==
    /\ IndexBijection(InputsPerMux)
    /\ IndexBijection(channelsPerMux)
    /\ \A s \in SweepIds :
            LET sw == sweeps[s]
                i == Len(sw.data) + 1
            IN sw.pc \in ReadPcs =>
                /\ i = fuseNumber(sw.mux, sw.ch)
                /\ RouteMux(channelsPerMux, i) = sw.mux
                /\ RouteChannel(channelsPerMux, i) = sw.ch

\* a sweep has stored the reading of every index at its position, and is
\* in the read for the first channel of the last multiplexer
C22_Witness ==
    \E s \in SweepIds :
        /\ sweeps[s].pc \in ReadPcs
        /\ sweeps[s].mux = totalMuxes - 1
        /\ sweeps[s].ch = 0
        /\ \A i \in 1 .. Len(sweeps[s].data) : sweeps[s].data[i] = i

\* ---- C23 ----
\* DATA_COLLECTION_INTERVAL is set and is no number, zero or negative
InvalidInterval(e) == e.set /\ (~e.numeric \/ e.n <= 0)

\* C23: monitoring is never started, and no sweep ever runs, by a process
\* whose DATA_COLLECTION_INTERVAL is invalid
C23_InvalidIntervalRejected ==
    (mon.monitoring \/ mon.timer \/ sweeps # <<>>)
        => ~InvalidInterval(mon.intervalEnv)

\* ---- C24 ----
\* an isHealthy call is in flight
HealthCallInFlight == test.pc \in HealthPcs

\* C24: a step of an isHealthy call starts no conversion and leaves the
\* ADC as it was; the call waits only for the write of the register address
\* and for the read, and ends by returning true or false, never by
\* throwing; it returns true only from a read that succeeded; and called
\* on a service that is not connected, or whose bus service is not
\* initialized, it returns false at once
C24_HealthCheckReadsOnly ==
    /\ [][HealthCallInFlight =>
            /\ adc' = adc
            /\ test'.pc \in HealthPcs \cup {"idle"}
            /\ test'.pc = "idle" => lastResult' \in {"true", "false"}]_vars
    /\ [][(lastResult' = "true" /\ lastResult # "true") =>
            (test.pc = "hRead" /\ faultsLeft' = faultsLeft)]_vars
    /\ []((~ads.isConnected \/ ~i2c.initialized) =>
            IsHealthyStart(ads, i2c) = "false")
    /\ []((ads.isConnected /\ i2c.initialized) =>
            IsHealthyStart(ads, i2c) = "hPtrWrite")

\* a conversion of channel 2 was started by readChannel, and an isHealthy
\* call made after it returned true with the ADC as the conversion left it
C24_Witness ==
    /\ lastResult = "true"
    /\ test.pc = "idle"
    /\ adc.sel = 2

\* ---- C25 ----
\* the results held in the buffer, oldest first
Buffered == [k \in 1 .. Len(remote.buffer) |-> remote.buffer[k].result]

\* the n most recent of the results 1 .. produced, in production order
MostRecent(produced, n) ==
    LET kept == IF produced < n THEN produced ELSE n
    IN [k \in 1 .. kept |-> produced - kept + k]

\* C25: the retry buffer never holds more than capacity entries, and as
\* long as no transmission has succeeded it holds exactly the most recent
\* capacity results, in the order they were produced
C25_BufferKeepsMostRecent ==
    /\ Len(remote.buffer) <= Capacity
    /\ remote.delivered = <<>> =>
          Buffered = MostRecent(remote.produced, Capacity)

\* capacity + 2 deliveries have failed and the buffer is full
C25_Witness ==
    /\ remote.delivered = <<>>
    /\ remote.produced = Capacity + 2
    /\ Len(remote.buffer) = Capacity
    /\ remote.evicted = {1, 2}

\* ---- C26 ----
\* the results the endpoint received by retransmission, in arrival order
Retransmitted == SelectSeq(remote.delivered, LAMBDA d : d.retry)

Increasing(seq) ==
    \A j, k \in DOMAIN seq : j < k => seq[j].result < seq[k].result

\* the results of the entries of a buffer
ResultsIn(buffer) == {buffer[k].result : k \in DOMAIN buffer}

DeliverSucceeded ==
    remote'.produced # remote.produced /\ remote'.delivered # remote.delivered

DeliverFailed ==
    remote'.produced # remote.produced /\ remote'.delivered = remote.delivered

RetrySucceeded ==
    remote'.produced = remote.produced /\ remote'.delivered # remote.delivered

\* C26: a deliver that succeeds leaves the buffer as it was and a deliver
\* that fails puts its result at the end of the buffer; a retransmission
\* that succeeds sends the oldest buffered entry and removes that entry and
\* no other; an entry leaves the buffer only when it has just been
\* delivered or evicted for capacity; the buffer is in production order and
\* the endpoint receives the retransmitted results in production order
C26_RetransmitOldestFirst ==
    /\ [][DeliverSucceeded =>
            /\ remote'.buffer = remote.buffer
            /\ remote'.delivered =
                 Append(remote.delivered,
                        [result |-> remote'.produced, retry |-> FALSE])]_vars
    /\ [][DeliverFailed =>
            /\ remote'.buffer # <<>>
            /\ remote'.buffer[Len(remote'.buffer)].result = remote'.produced
          ]_vars
    /\ [][RetrySucceeded =>
            /\ remote.buffer # <<>>
            /\ remote'.buffer = Tail(remote.buffer)
            /\ remote'.delivered =
                 Append(remote.delivered,
                        [result |-> remote.buffer[1].result,
                         retry |-> TRUE])]_vars
    /\ [][\A result \in ResultsIn(remote.buffer) \ ResultsIn(remote'.buffer) :
            \/ /\ RetrySucceeded
               /\ remote'.delivered[Len(remote'.delivered)].result = result
            \/ /\ DeliverFailed
               /\ Len(remote.buffer) = Capacity
               /\ result \in remote'.evicted \ remote.evicted]_vars
    /\ [](Increasing(remote.buffer) /\ Increasing(Retransmitted))

\* a result was evicted for capacity, and afterwards the whole buffer was
\* retransmitted, while a result delivered at once arrived in between
C26_Witness ==
    /\ remote.evicted # {}
    /\ remote.buffer = <<>>
    /\ Len(Retransmitted) = Capacity
    /\ \E k \in DOMAIN remote.delivered :
          /\ ~remote.delivered[k].retry
          /\ k < Len(remote.delivered)

\* ---- C27 ----
\* the sweep s is between the configuration write and the conversion read
\* of a readChannel call
Converting(s) == s \in SweepsInFlight /\ sweeps[s].pc \in ReadPcs

\* the lines route the fuse of logical index i to the ADC
RoutesIndex(g, i) ==
    /\ EnabledMuxes(g) = {(i - 1) \div channelsPerMux}
    /\ getCurrentChannel(g) = (i - 1) % channelsPerMux

\* C27: while a sweep is between the configuration write and the
\* conversion read for logical index i, the enabled multiplexer and the
\* address lines are those of i, and every step that changes a GPIO line
\* or starts a conversion is a step of that sweep (the step in which the
\* process exits apart: the conversion it cuts short records no value)
C27_ConversionUndisturbed ==
    [][\A s \in SweepIds :
        (Converting(s) /\ proc' # "exited") =>
            /\ RoutesIndex(gpio, fuseNumber(sweeps[s].mux, sweeps[s].ch))
            /\ (gpio' # gpio \/ adc' # adc) => sweeps'[s] # sweeps[s]]_vars


\* ---- C28 ----
\* testSystem has returned and no sweep has enabled a multiplexer since
TestReturned == test.pc = "done" /\ sweeps = <<>>

\* C28: once testSystem has returned, with or without an error in its
\* results, no enable line is asserted (until the first sweep begins),
\* also after the process exited on a failed test
C28_TestLeavesMuxesDisabled ==
    TestReturned => EnabledMuxes(gpio) = {}

\* ---- C29 ----
\* in the stages of a shutdown, a stage that closes the I2C device handle
\* starts with every enable line de-asserted
ClosesAfterDisable(stages) ==
    \A k \in 2 .. Len(stages) :
        (stages[k - 1].i2c.connected /\ ~stages[k].i2c.connected) =>
            EnabledMuxes(stages[k - 1].gpio) = {}

\* the process has exited through shutdown()
ShutDown == proc = "exited" /\ ~mon.initialized /\ ~i2c.initialized

\* C29: a shutdown begun in any state of the running program de-asserts
\* every enable line before it closes the I2C device handle; once shutdown
\* has run every enable line is de-asserted and stays so, and the files
\* get no further row, also with a sweep still in flight
C29_ShutdownDisablesFirst ==
    /\ [](proc # "exited" => ClosesAfterDisable(ShutdownStages(Services(gpio))))
    /\ [](ShutDown => EnabledMuxes(gpio) = {})
    /\ [][ShutDown => (gpio' = gpio /\ disk' = disk)]_vars

\* shutdown ran while a sweep was between a configuration write and the
\* conversion read, with values already collected
C29_Witness ==
    /\ ShutDown
    /\ \E s \in SweepIds :
          /\ sweeps[s].pc \in ReadPcs
          /\ sweeps[s].data # <<>>

\* ---- C30 ----
\* a readChannel call is in flight
ReadCallInFlight == test.pc \in ReadPcs

\* the word is a start of a single-shot conversion of the single-ended
\* input channel with the gain field as given
StartsConversion(w, channel, gain) ==
    /\ StartBit(w) = 1
    /\ InputSelect(w) = 4 + channel
    /\ GainField(w) = gain
    /\ ModeBit(w) = 1

\* C30: a readChannel call first writes the configuration word (start bit,
\* single-ended input of its channel, the current gain, single-shot mode),
\* then waits the conversion delay, then reads the conversion register, in
\* that order and skipping none; while it reads, the device holds the
\* word the call wrote; and it returns a value only from a read that
\* succeeded
C30_WriteDelayRead ==
    /\ [][(ReadCallInFlight /\ test'.pc # test.pc) =>
            \/ test.pc = "cfgWrite" /\ test'.pc = "convDelay"
               /\ StartsConversion(adc'.cfg, test.mux, ads.gain)
               /\ adc'.sel = test.mux
            \/ test.pc = "convDelay" /\ test'.pc = "ptrWrite"
            \/ test.pc = "ptrWrite" /\ test'.pc = "convRead"
            \/ test'.pc = "idle" /\ lastResult' = "error"
            \/ test.pc = "convRead" /\ test'.pc = "idle"
               /\ lastResult' = "ok" /\ faultsLeft' = faultsLeft]_vars
    /\ [][(test.pc = "idle" /\ test'.pc \in ReadPcs) =>
            (test'.pc = "cfgWrite" /\ test'.mux \in 0 .. 3)]_vars
    /\ []((test.pc \in {"convDelay", "ptrWrite", "convRead"}) =>
            StartsConversion(adc.cfg, test.mux, ads.gain))

\* readChannel(3) returned a value read with a gain other than the default
C30_Witness ==
    /\ lastResult = "ok"
    /\ test.pc = "idle"
    /\ adc.sel = 3
    /\ ads.gain = 2560
    /\ GainField(adc.cfg) = 2560

\* ---- C31 ----
\* readChannel has converted the word in the conversion register
Converted == test.pc = "idle"

FullRow(values) ==
    /\ Len(values) = totalFuses
    /\ \A i \in 1 .. totalFuses :
          values[i] \in {Sentinel,
                         Reading((i - 1) \div channelsPerMux,
                                 (i - 1) % channelsPerMux)}

\* the sweeps whose row the stream took
WrittenSweeps == {s \in SweepIds : sweeps[s].written}

\* C32: every row in the file has exactly totalFuses values, each the
\* reading of its fuse or the sentinel; a row is appended only by a sweep
\* that collected all of them; and a sweep that ended in the outer catch
\* appended nothing
C32_NoPartialRow ==
    /\ \A k \in Rows(disk.active) : FullRow(disk.active[k].values)
    /\ Cardinality(Rows(disk.active)) = Cardinality(WrittenSweeps)
    /\ \A s \in SweepIds :
          /\ sweeps[s].written => FullRow(sweeps[s].data)
          /\ sweeps[s].aborted =>
                (~sweeps[s].written /\ sweeps[s].pc = "done")

\* a sweep was aborted after its first multiplexer, with values collected,
\* and the sweep of the next tick appended its row
C32_Witness ==
    /\ Len(sweeps) = 2
    /\ sweeps[1].aborted
    /\ Len(sweeps[1].data) = channelsPerMux
    /\ sweeps[2].written
    /\ Cardinality(Rows(disk.active)) = 1

\* ---- C33 ----
\* no write is pending: every logData call has returned and no sweep waits
\* for the callback of its row's write
WritesCompleted ==
    /\ LogsReturned
    /\ \A s \in SweepIds : sweeps[s].pc # "csvWrite"

\* C33: with no write pending, the logger's fileSize is the size of the
\* active file
C33_TrackedSizeIsFileSize ==
    (csv.initialized /\ WritesCompleted) =>
        csv.fileSize = FileBytes(disk.active)

\* ---- C34 ----
\* a sweep starts in this step
SweepStarts == Len(sweeps') > Len(sweeps)

\* C34: at most one interval timer is armed, and one is armed exactly when
\* the monitoring flag is set (then the service holds its handle); none is
\* armed while the service is not initialized, so none before initialize
\* and none after shutdown; and a sweep starts only while the flag is set
C34_OneTimerIffMonitoring ==
    /\ [](mon.armed <= 1)
    /\ [](mon.monitoring <=> mon.armed = 1)
    /\ [](mon.monitoring <=> mon.timer)
    /\ [](~mon.initialized => mon.armed = 0)
    /\ [](proc = "exited" => mon.armed = 0)
    /\ [][SweepStarts => (mon.monitoring /\ mon.armed = 1)]_vars

\* a direct call of startMonitoring returned on the running program, after
\* a sweep had started, and one timer is armed
C34_Witness ==
    /\ proc = "running"
    /\ mon.monitoring
    /\ mon.armed = 1
    /\ lastResult = "ok"
    /\ Len(sweeps) = 1
    /\ ticksLeft = MaxTicks - 1

\* ---- C35 ----
\* C35: in whatever state the lines are, setMuxChannel with any channel
\* leaves every enable line as it was, enableMux with any index and
\* disableAllMux leave every address line as it was, and a call with a
\* channel outside 0..15 or a multiplexer index outside 0..3 throws and
\* leaves every line as it was
C35_CallsChangeOnlyTheirLines ==
    /\ \A channel \in -1 .. 16 :
          LET r == setMuxChannel(gpio, channel)
          IN /\ r.g.en = gpio.en
             /\ r.g.initialized = gpio.initialized
             /\ channel \notin Channels => Refused(r, gpio)
    /\ \A muxIndex \in -1 .. 4 :
          LET r == enableMux(gpio, muxIndex)
          IN /\ r.g.sel = gpio.sel
             /\ r.g.initialized = gpio.initialized
             /\ muxIndex \notin Mux => Refused(r, gpio)
    /\ disableAllMux(gpio).g.sel = gpio.sel

\* on an initialized service with multiplexer 2 enabled and channel 5
\* selected a call threw
C35_Witness ==
    /\ gpio.initialized
    /\ lastResult = "error"
    /\ EnabledMuxes(gpio) = {2}
    /\ getCurrentChannel(gpio) = 5

\* ---- C36 ----
\* the rotation counters in the names of the rotated files, oldest first
RotationCounters == [i \in DOMAIN disk.rotated |-> disk.rotated[i].count]

\* C36: the counter in the name of each rotated file is greater than the
\* counter of every file rotated before it, so no two rotated files of the
\* process share a name; the logger's counter is never below a name's
\* counter, never decreases, and advances also in a rotation that fails
C36_RotationCounterIncreases ==
    /\ [](\A i, j \in DOMAIN disk.rotated :
            i < j => RotationCounters[i] < RotationCounters[j])
    /\ [](\A i \in DOMAIN disk.rotated :
            RotationCounters[i] \in 1 .. csv.rotationCount)
    /\ [][csv'.rotationCount >= csv.rotationCount]_vars
    /\ [][Len(disk'.rotated) > Len(disk.rotated) =>
            /\ csv'.rotationCount = csv.rotationCount + 1
            /\ disk'.rotated[Len(disk'.rotated)].count = csv'.rotationCount
            /\ \A i \in DOMAIN disk.rotated :
                  disk'.rotated[i] = disk.rotated[i]]_vars

\* a rotation failed and the next one succeeded: the one rotated file
\* carries the counter 2
C36_Witness ==
    /\ Len(disk.rotated) = 1
    /\ disk.rotated[1].count = 2
    /\ csv.rotationCount = 2

\* ---- C37 ----
\* a bus transaction is issued in this step: a call comes to wait for one
BusTransactionIssued == test'.pc \in TestBusPcs /\ test'.pc # test.pc

\* C37: readChannel with a channel outside 0..3, or on a service that is
\* not connected, throws at once; a readChannel call comes to its first
\* bus transaction only with a channel of 0..3 on a connected service; and
\* the device takes a configuration word only from a call that waited for
\* its configuration write, so a call that was refused starts no conversion
C37_BadReadIssuesNoTransaction ==
    /\ [](\A channel \in -1 .. 4 :
            (~ads.isConnected \/ channel \notin 0 .. 3) =>
                ReadChannelStart(ads, i2c, channel) = "throw")
    /\ [][(BusTransactionIssued /\ test.pc = "idle"
                /\ test'.pc \in ReadPcs) =>
            (ads.isConnected /\ test'.mux \in 0 .. 3)]_vars
    /\ [][adc' # adc => test.pc = "cfgWrite"]_vars
    /\ [][(test.pc = "idle" /\ test'.pc = "idle"
                /\ lastResult' = "error") =>
            (adc' = adc /\ faultsLeft' = faultsLeft)]_vars

\* on a connected service that has issued no transaction since it was
\* connected, a readChannel call threw
C37_Witness ==
    /\ test.pc = "idle"
    /\ lastResult = "error"
    /\ ads.isConnected
    /\ i2c.initialized
    /\ adc.cfg = 0
    /\ faultsLeft = MaxFaults

\* ---- C38 ----
\* the rows of fuse_readings stored for a reading
StoredFor(readingId) ==
    {row \in server.fuse_readings : row.reading_id = readingId}

\* C38: every success response of POST /data that carries reading_id r
\* and fuses_recorded n was sent with exactly n rows of fuse_readings
\* stored for r, and a request gets one response: none twice, and one once
\* its callbacks have all run
C38_SuccessCountsStoredRows ==
    \A i \in DOMAIN server.requests :
        LET request == server.requests[i]
        IN /\ Len(request.responses) <= 1
           /\ request.pc = "done" => Len(request.responses) = 1
           /\ \A k \in DOMAIN request.responses :
                 request.responses[k].success =>
                    Cardinality(StoredFor(request.responses[k].reading_id))
                        = request.responses[k].fuses_recorded
====
